---------------------------- MODULE Config_proofs ----------------------------
(***************************************************************************)
(* Proofs about Config, for any creators, any settings in the file, any    *)
(* command lines and any number of runs, each of which may die anywhere.   *)
(***************************************************************************)
EXTENDS Config, TLAPS

-----------------------------------------------------------------------------
(* Settings as partial functions.                                          *)

\* What lies over another function hides it.
LEMMA OverDomain == \A f, g : DOMAIN Over(f, g) = DOMAIN f \cup DOMAIN g
BY DEF Over

\* Its own keys come from it.
LEMMA OverFirst == \A f, g, k : k \in DOMAIN f => Over(f, g)[k] = f[k]
BY DEF Over

\* The others show through.
LEMMA OverSecond == \A f, g, k : k \in DOMAIN g \ DOMAIN f => Over(f, g)[k] = g[k]
BY DEF Over

\* It is a function.
LEMMA OverFunction ==
    \A f, g : Over(f, g) = [k \in DOMAIN f \cup DOMAIN g |-> Over(f, g)[k]]
BY DEF Over

\* The keys the properties speak of, and their defaults.
LEMMA KeysType ==
    /\ Curated \cup {"session_baseline", "interactive", "scan_settle_s"} \subseteq Keys
    /\ {"token", "retries"} \subseteq Keys
    /\ Default["session_baseline"] = "none" /\ Default["wall"] = {}
    /\ Default["use_following"] = FALSE
<1>1. DOMAIN Targets = {"usernames", "use_following", "wall"} /\ Targets["wall"] = {}
      /\ Targets["use_following"] = FALSE
  BY DEF Targets
<1>2. DOMAIN Options = {"download_mode", "interactive", "directory", "temp_folder", "retries"}
  BY DEF Options
<1>3. DOMAIN Monitoring = {"daemon_mode", "session_baseline"}
      /\ Monitoring["session_baseline"] = "none"
  BY DEF Monitoring
<1>4. DOMAIN Stash = {"stash", "scan_settle_s"}
  BY DEF Stash
<1>5. DOMAIN Account = {"token", "credentials", "check_key"}
  BY DEF Account
<1>6. DOMAIN Postgres = {"pg_password"} /\ DOMAIN Cache = {"device_id"}
  BY DEF Postgres, Cache
<1> DEFINE m == Over(Monitoring, Stash)
           c == Over(Cache, m)
           p == Over(Postgres, c)
           o == Over(Options, p)
           a == Over(Account, o)
           d == Over(Targets, a)
<1> HIDE DEF m, c, p, o, a, d
<1>7. DOMAIN m = DOMAIN Monitoring \cup DOMAIN Stash
  BY OverDomain DEF m
<1>8. DOMAIN c = DOMAIN Cache \cup DOMAIN m
  BY OverDomain DEF c
<1>9. DOMAIN p = DOMAIN Postgres \cup DOMAIN c
  BY OverDomain DEF p
<1>10. DOMAIN o = DOMAIN Options \cup DOMAIN p
  BY OverDomain DEF o
<1>11. DOMAIN a = DOMAIN Account \cup DOMAIN o
  BY OverDomain DEF a
<1>12. DOMAIN d = DOMAIN Targets \cup DOMAIN a
  BY OverDomain DEF d
<1>13. m["session_baseline"] = "none"
  BY <1>3, OverFirst DEF m
<1>14. "session_baseline" \in DOMAIN m \ DOMAIN Cache /\ c["session_baseline"] = "none"
  <2>1. "session_baseline" \in DOMAIN m \ DOMAIN Cache
    BY <1>3, <1>6, <1>7
  <2> QED
    BY <1>13, <2>1, OverSecond DEF c
<1>15. "session_baseline" \in DOMAIN c \ DOMAIN Postgres /\ p["session_baseline"] = "none"
  <2>1. "session_baseline" \in DOMAIN c \ DOMAIN Postgres
    BY <1>14, <1>6, <1>8
  <2> QED
    BY <1>14, <2>1, OverSecond DEF p
<1>16. "session_baseline" \in DOMAIN p \ DOMAIN Options /\ o["session_baseline"] = "none"
  <2>1. "session_baseline" \in DOMAIN p \ DOMAIN Options
    BY <1>15, <1>2, <1>9
  <2> QED
    BY <1>15, <2>1, OverSecond DEF o
<1>17. "session_baseline" \in DOMAIN o \ DOMAIN Account /\ a["session_baseline"] = "none"
  <2>1. "session_baseline" \in DOMAIN o \ DOMAIN Account
    BY <1>16, <1>5, <1>10
  <2> QED
    BY <1>16, <2>1, OverSecond DEF a
<1>18. "session_baseline" \in DOMAIN a \ DOMAIN Targets /\ d["session_baseline"] = "none"
  <2>1. "session_baseline" \in DOMAIN a \ DOMAIN Targets
    BY <1>17, <1>1, <1>11
  <2> QED
    BY <1>17, <2>1, OverSecond DEF d
<1>19. d["wall"] = {} /\ d["use_following"] = FALSE
  BY <1>1, OverFirst DEF d
<1>20. Default = d
  BY DEF Default, d, a, o, p, c, m
<1>21. DOMAIN Targets \cup DOMAIN Account \cup DOMAIN Options \cup DOMAIN Monitoring
         \cup DOMAIN Stash \subseteq DOMAIN d
  BY <1>7, <1>8, <1>9, <1>10, <1>11, <1>12
<1>22. /\ {"usernames", "use_following", "wall"} \subseteq DOMAIN d
       /\ {"download_mode", "interactive", "directory"} \subseteq DOMAIN d
       /\ {"daemon_mode", "session_baseline", "scan_settle_s"} \subseteq DOMAIN d
       /\ {"token", "retries"} \subseteq DOMAIN d
  BY <1>1, <1>2, <1>3, <1>4, <1>5, <1>21
<1> QED
  BY <1>18, <1>19, <1>20, <1>22 DEF Keys, Curated

\* A file says what the schema it was rendered from says.
LEMMA RenderedValue ==
    ASSUME NEW s, NEW k
    PROVE  Value(Rendered(s), k) = Value(s, k)
BY DEF Rendered, Value

\* A save takes over the values of the run that are not overridden.
LEMMA RebuiltValue ==
    ASSUME NEW s, NEW r, NEW e, NEW k \in Keys \ {"scan_settle_s"}
    PROVE  Value(Rebuilt(s, r, e), k) = IF k \in Changed(s, r, e) THEN r[k] ELSE Value(s, k)
BY DEF Rebuilt, Value

\* The same for the files.
LEMMA SavedValue ==
    ASSUME NEW s, NEW r, NEW e, Saved(s, r, e)
    PROVE  /\ DOMAIN files' = DOMAIN files \cup {"yaml"}
           /\ \A n \in DOMAIN files \ {"yaml"} : files'[n] = files[n]
           /\ \A k \in Keys \ {"scan_settle_s"} :
                 /\ Value(files'["yaml"], k) = Value(schema', k)
                 /\ Value(schema', k) = IF k \in Changed(s, r, e) THEN r[k] ELSE Value(s, k)
<1>1. schema' = Rebuilt(s, r, e) /\ files' = Over([yaml |-> Rendered(schema')], files)
  BY DEF Saved
<1> DEFINE y == [yaml |-> Rendered(schema')]
<1>2. DOMAIN y = {"yaml"} /\ y["yaml"] = Rendered(schema')
  OBVIOUS
<1> HIDE DEF y
<1>3. /\ DOMAIN files' = DOMAIN files \cup {"yaml"} /\ files'["yaml"] = Rendered(schema')
      /\ \A n \in DOMAIN files \ {"yaml"} : files'[n] = files[n]
  <2>1. files' = Over(y, files)
    BY <1>1 DEF y
  <2>2. DOMAIN files' = DOMAIN y \cup DOMAIN files
    BY <2>1, OverDomain, OverFirst, OverSecond
  <2>3. \A n \in DOMAIN files \ DOMAIN y : files'[n] = files[n]
    BY <2>1, OverDomain, OverFirst, OverSecond
  <2>4. files'["yaml"] = y["yaml"]
    BY <1>2, <2>1, OverDomain, OverFirst, OverSecond
  <2> QED
    BY <1>2, <2>2, <2>3, <2>4
<1>4. \A k : Value(files'["yaml"], k) = Value(schema', k)
  BY <1>3, RenderedValue
<1>5. \A k \in Keys \ {"scan_settle_s"} :
         Value(schema', k) = IF k \in Changed(s, r, e) THEN r[k] ELSE Value(s, k)
  BY <1>1, RebuiltValue
<1> QED
  BY <1>3, <1>4, <1>5

\* The directive is taken out, and nothing else.
LEMMA TakenValue ==
    ASSUME NEW s
    PROVE  /\ Value(Taken(s), "session_baseline") = "none"
           /\ \A k \in Keys \ {"session_baseline"} : Value(Taken(s), k) = Value(s, k)
<1> DEFINE b == [session_baseline |-> "none"]
<1>1. DOMAIN b = {"session_baseline"} /\ b["session_baseline"] = "none"
  OBVIOUS
<1> HIDE DEF b
<1>2. CASE Value(s, "session_baseline") = "none"
  BY <1>2 DEF Taken
<1>3. CASE Value(s, "session_baseline") # "none"
  <2>1. Taken(s) = Over(b, s)
    BY <1>3 DEF Taken, b
  <2>2. DOMAIN Taken(s) = DOMAIN b \cup DOMAIN s
    BY <2>1, OverDomain, OverFirst, OverSecond
  <2>3. Taken(s)["session_baseline"] = "none"
    BY <1>1, <2>1, OverDomain, OverFirst, OverSecond
  <2>4. \A k \in DOMAIN s \ DOMAIN b : Taken(s)[k] = s[k]
    BY <2>1, OverDomain, OverFirst, OverSecond
  <2> QED
    BY <1>1, <2>2, <2>3, <2>4 DEF Value
<1> QED
  BY <1>2, <1>3

\* What the run starts with.
LEMMA PopulatedValue ==
    ASSUME NEW s
    PROVE  /\ Populated(s) = [k \in Keys |-> Populated(s)[k]]
           /\ \A k \in Curated : Populated(s)[k] = Value(s, k)
<1>1. \A k \in Curated : k \in Keys /\ k \notin {"check_key", "pg_password", "interactive"}
  BY KeysType DEF Curated
<1>2. ASSUME NEW k \in Curated PROVE Populated(s)[k] = Value(s, k)
  BY <1>1, Zenon DEF Populated
<1>3. Populated(s) = [k \in Keys |-> Populated(s)[k]]
  BY Zenon DEF Populated
<1> QED
  BY <1>2, <1>3

-----------------------------------------------------------------------------
(* The steps.                                                              *)

\* From the load of the settings to the end of the run.
Working == {"args", "walls", "names", "token", "key", "directory", "mode",
            "api", "login", "scope", "ids", "running"}

\* A step of the run that assigns r and the marks e, and may save.
Does(r, e) ==
    /\ Saves(r, e) \/ Assigns(r, e)
    /\ stage \in Working /\ stage' \in Working \ {"args"}
    /\ UNCHANGED <<flags, driven>>

\* The ways a migration and a run go.
LEMMA StepCases ==
    ASSUME ConfigNext
    PROVE  \/ Start \/ LoadYaml \/ LoadDefaults \/ LoadMigrated
           \/ MigrateWrites \/ MigrateDiverges \/ MigrateRenames
           \/ Refused
           \/ MapArgs \/ ValidateWalls \/ ValidateNames \/ ValidateToken \/ ValidateKey
           \/ ValidateDirectory \/ ValidateMode \/ UpdateDeviceId \/ SetupSession
           \/ ListFollowing \/ NamesStand \/ ResolveIds \/ RefreshFollowing \/ SavedInRun
BY DEF ConfigNext, LoadNext, ValidateNext, RunNext, ArgsConflict, WallsRefused, NamesRefused,
       TokenRefused, LoginFails, NobodyFollowed, Exits

\* The step of a run that is not its end.
RunStep ==
    \/ MapArgs \/ ValidateWalls \/ ValidateNames \/ ValidateToken \/ ValidateKey
    \/ ValidateDirectory \/ ValidateMode \/ UpdateDeviceId \/ SetupSession
    \/ ListFollowing \/ NamesStand \/ ResolveIds \/ RefreshFollowing \/ SavedInRun

\* Each assigns some values, and may save them.
LEMMA RunSteps ==
    ASSUME RunStep
    PROVE  \E r, e : Does(r, e)
<1>1. CASE MapArgs
  BY <1>1, Zenon DEF MapArgs, Does, Working, GoesTo
<1>2. CASE ValidateWalls
  BY <1>2, Zenon DEF ValidateWalls, Does, Working, GoesTo
<1>3. CASE ValidateNames
  BY <1>3, Zenon DEF ValidateNames, Does, Working, GoesTo
<1>4. CASE ValidateToken
  BY <1>4, Zenon DEF ValidateToken, Does, Working, GoesTo
<1>5. CASE ValidateKey
  BY <1>5, Zenon DEF ValidateKey, Does, Working, GoesTo
<1>6. CASE ValidateDirectory
  BY <1>6, Zenon DEF ValidateDirectory, Does, Working, GoesTo
<1>7. CASE ValidateMode
  BY <1>7, Zenon DEF ValidateMode, Does, Working, GoesTo
<1>8. CASE UpdateDeviceId \/ SetupSession
  BY <1>8, Zenon DEF UpdateDeviceId, SetupSession, Does, Working, GoesTo
<1>9. CASE ListFollowing \/ NamesStand
  BY <1>9, Zenon DEF ListFollowing, NamesStand, Does, Working, GoesTo
<1>10. CASE ResolveIds
  BY <1>10, Zenon DEF ResolveIds, Does, Working, GoesTo
<1>11. CASE RefreshFollowing \/ SavedInRun
  BY <1>11, Zenon DEF RefreshFollowing, SavedInRun, Does, Working, GoesTo
<1> QED
  BY <1>1, <1>2, <1>3, <1>4, <1>5, <1>6, <1>7, <1>8, <1>9, <1>10, <1>11 DEF RunStep

-----------------------------------------------------------------------------
(* One run at most takes the directive.                                    *)

Base(m) == Value(m, "session_baseline") # "none"

\* Once it is taken it is in no file that is read, and a run that has loaded
\* its settings no longer has it in its schema.
BaselineInv ==
    /\ driven \in {0, 1}
    /\ "ini" \in DOMAIN files => DOMAIN files["ini"] \subseteq IniKeys
    /\ driven = 1 /\ "yaml" \in DOMAIN files => ~Base(files["yaml"])
    /\ stage \in Working \cup {"parity", "migrated"} => ~Base(schema)
    /\ stage \in {"parity", "migrated"} => "yaml" \in DOMAIN files /\ ~Base(files["yaml"])

\* A config.ini does not have it.
LEMMA IniBase ==
    /\ \A m : DOMAIN FromIni(m) \subseteq IniKeys
    /\ \A m : DOMAIN m \subseteq IniKeys => ~Base(m)
    /\ \A m : Base(m) <=> Base(Rendered(m))
<1>1. \A m : DOMAIN FromIni(m) \subseteq IniKeys
  BY DEF FromIni
<1>2. "session_baseline" \notin IniKeys
  BY DEF IniKeys
<1>3. ASSUME NEW m, DOMAIN m \subseteq IniKeys PROVE ~Base(m)
  BY <1>2, <1>3, KeysType DEF Base, Value
<1>4. \A m : Base(m) <=> Base(Rendered(m))
  BY RenderedValue DEF Base
<1> QED
  BY <1>1, <1>3, <1>4

\* What the migration does to the files.
LEMMA MigrationFiles ==
    /\ MigrateWrites =>
          /\ DOMAIN files' = DOMAIN files \cup {"yaml"} /\ "ini" \in DOMAIN files
          /\ schema' = FromIni(files["ini"]) /\ files'["yaml"] = Rendered(schema')
          /\ \A n \in DOMAIN files \ {"yaml"} : files'[n] = files[n]
    /\ MigrateRenames =>
          /\ DOMAIN files' = (DOMAIN files \ {"ini"}) \cup {"bak"}
          /\ "yaml" \in DOMAIN files => files'["yaml"] = files["yaml"]
          /\ schema' = schema
    /\ MigrateDiverges =>
          /\ DOMAIN files' = DOMAIN files \ {"yaml"}
          /\ \A n \in DOMAIN files' : files'[n] = files[n]
<1>1. ASSUME MigrateWrites
      PROVE  /\ DOMAIN files' = DOMAIN files \cup {"yaml"} /\ "ini" \in DOMAIN files
             /\ schema' = FromIni(files["ini"]) /\ files'["yaml"] = Rendered(schema')
             /\ \A n \in DOMAIN files \ {"yaml"} : files'[n] = files[n]
  <2> DEFINE y == [yaml |-> Rendered(FromIni(files["ini"]))]
  <2>1. DOMAIN y = {"yaml"} /\ y["yaml"] = Rendered(FromIni(files["ini"]))
    OBVIOUS
  <2>2. files' = Over(y, files) /\ schema' = FromIni(files["ini"]) /\ "ini" \in DOMAIN files
    BY <1>1 DEF MigrateWrites
  <2> HIDE DEF y
  <2>3. DOMAIN files' = DOMAIN y \cup DOMAIN files
    BY <2>2, OverDomain
  <2>4. files'["yaml"] = y["yaml"]
    BY <2>1, <2>2, OverFirst
  <2>5. \A n \in DOMAIN files \ DOMAIN y : files'[n] = files[n]
    BY <2>2, OverSecond
  <2> QED
    BY <2>1, <2>2, <2>3, <2>4, <2>5
<1>2. ASSUME MigrateRenames
      PROVE  /\ DOMAIN files' = (DOMAIN files \ {"ini"}) \cup {"bak"}
             /\ "yaml" \in DOMAIN files => files'["yaml"] = files["yaml"]
             /\ schema' = schema
  <2> DEFINE b == [bak |-> files["ini"]]
             f == [n \in DOMAIN files \ {"ini"} |-> files[n]]
  <2>1. DOMAIN b = {"bak"} /\ DOMAIN f = DOMAIN files \ {"ini"}
    OBVIOUS
  <2>2. "yaml" \in DOMAIN files => f["yaml"] = files["yaml"]
    OBVIOUS
  <2>3. files' = Over(b, f) /\ schema' = schema
    BY <1>2 DEF MigrateRenames
  <2> HIDE DEF b, f
  <2>4. DOMAIN files' = DOMAIN b \cup DOMAIN f
    BY <2>3, OverDomain
  <2>5. "yaml" \in DOMAIN files => files'["yaml"] = f["yaml"]
    BY <2>1, <2>3, OverSecond
  <2> QED
    BY <2>1, <2>2, <2>3, <2>4, <2>5
<1>3. MigrateDiverges =>
          /\ DOMAIN files' = DOMAIN files \ {"yaml"}
          /\ \A n \in DOMAIN files' : files'[n] = files[n]
  BY DEF MigrateDiverges
<1> QED
  BY <1>1, <1>2, <1>3

\* A load takes the directive out of the schema and hence of the file.
LEMMA LoadsBase ==
    ASSUME NEW s, Loads(s)
    PROVE  /\ ~Base(schema') /\ ~Base(files'["yaml"]) /\ stage' = "args"
           /\ DOMAIN files' = DOMAIN files \cup {"yaml"}
           /\ \A n \in DOMAIN files \ {"yaml"} : files'[n] = files[n]
           /\ driven' = driven + (IF Base(s) THEN 1 ELSE 0)
<1>1. Saved(Taken(s), Populated(s), {})
  BY DEF Loads
<1>2. "session_baseline" \in Keys \ {"scan_settle_s"}
      /\ "session_baseline" \notin Changed(Taken(s), Populated(s), {})
  BY KeysType DEF Changed, RunOnly
<1>3. ~Base(schema') /\ ~Base(files'["yaml"])
  BY <1>1, <1>2, SavedValue, TakenValue DEF Base
<1>4. driven' = driven + (IF Base(s) THEN 1 ELSE 0) /\ stage' = "args"
  BY DEF Loads, Base
<1> QED
  BY <1>1, <1>3, <1>4, SavedValue

\* A save of a run does not bring it back.
LEMMA DoesBase ==
    ASSUME NEW r, NEW e, Does(r, e)
    PROVE  /\ Base(schema') <=> Base(schema)
           /\ \/ UNCHANGED files
              \/ /\ DOMAIN files' = DOMAIN files \cup {"yaml"}
                 /\ Base(files'["yaml"]) <=> Base(schema)
                 /\ \A n \in DOMAIN files \ {"yaml"} : files'[n] = files[n]
<1>1. CASE Assigns(r, e)
  BY <1>1 DEF Assigns, diskVars
<1>2. CASE Saves(r, e)
  <2>1. Saved(schema, r, e)
    BY <1>2 DEF Saves
  <2>2. "session_baseline" \in Keys \ {"scan_settle_s"}
        /\ "session_baseline" \notin Changed(schema, r, e)
    BY KeysType DEF Changed, RunOnly
  <2> QED
    BY <2>1, <2>2, SavedValue DEF Base
<1> QED
  BY <1>1, <1>2 DEF Does

\* No step lets a second run take it.
LEMMA BaselineKeeps ==
    ASSUME BaselineInv, [ConfigNext]_configVars
    PROVE  BaselineInv'
<1> USE DEF BaselineInv
<1>1. CASE UNCHANGED configVars
  BY <1>1 DEF configVars, diskVars, Base
<1>2. CASE Start
  BY <1>2 DEF Start, diskVars, Working
<1>3. CASE LoadYaml \/ LoadDefaults \/ LoadMigrated
  <2>1. PICK s : Loads(s) /\ \/ "yaml" \in DOMAIN files /\ s = files["yaml"]
                             \/ ~Base(s)
    <3>1. CASE LoadYaml
      BY <3>1 DEF LoadYaml
    <3>2. CASE LoadDefaults
      BY <3>2, IniBase DEF LoadDefaults
    <3>3. CASE LoadMigrated
      BY <3>3 DEF LoadMigrated
    <3> QED
      BY <1>3, <3>1, <3>2, <3>3
  <2> QED
    BY <2>1, LoadsBase DEF Working
<1>4. CASE MigrateWrites
  <2>1. driven' = driven /\ stage' = "parity"
    BY <1>4 DEF MigrateWrites, GoesTo
  <2> QED
    BY <1>4, <2>1, MigrationFiles, IniBase DEF Working
<1>5. CASE MigrateRenames
  <2>1. driven' = driven /\ stage' = "migrated" /\ stage = "parity"
    BY <1>5 DEF MigrateRenames
  <2> QED
    BY <1>5, <2>1, MigrationFiles DEF Working
<1>6. CASE MigrateDiverges
  <2>1. driven' = driven /\ stage' = "off"
    BY <1>6 DEF MigrateDiverges, Gone
  <2> QED
    BY <1>6, <2>1, MigrationFiles DEF Working
<1>7. CASE Refused
  BY <1>7 DEF Refused, Gone, Working
<1>8. CASE RunStep
  <2>1. PICK r, e : Does(r, e)
    BY <1>8, RunSteps
  <2>2. stage \in Working /\ stage' \in Working /\ driven' = driven
    BY <2>1 DEF Does
  <2>3. stage' \notin {"parity", "migrated"}
    BY <2>2 DEF Working
  <2> QED
    BY <2>1, <2>2, <2>3, DoesBase
<1> QED
  BY <1>1, <1>2, <1>3, <1>4, <1>5, <1>6, <1>7, <1>8, StepCases DEF RunStep

\* A session_baseline in the file drives one run at most, however many runs there
\* are, whatever they save and wherever they die.
THEOREM BaselineCorrect == ConfigSpec => []BaselineOnce
<1>1. ConfigInit => BaselineInv
  <2> SUFFICES ASSUME ConfigInit PROVE BaselineInv
    OBVIOUS
  <2>1. stage = "off" /\ driven = 0
    BY DEF ConfigInit
  <2>2. "ini" \in DOMAIN files => DOMAIN files["ini"] \subseteq IniKeys
    <3>1. CASE files = <<>>
      BY <3>1
    <3>2. CASE \E p \in Profiles : files \in {[yaml |-> p], [ini |-> FromIni(p)]}
      BY <3>2, IniBase
    <3> QED
      BY <3>1, <3>2 DEF ConfigInit
  <2> QED
    BY <2>1, <2>2 DEF BaselineInv, Working
<1>2. BaselineInv /\ [ConfigNext]_configVars => BaselineInv'
  BY BaselineKeeps
<1>3. BaselineInv => BaselineOnce
  BY DEF BaselineInv, BaselineOnce
<1> QED
  BY <1>1, <1>2, <1>3, PTL DEF ConfigSpec

-----------------------------------------------------------------------------
(* The user's settings.                                                    *)

\* What may stand in the file, or in m, for a setting of the user's.
Ok(k) == given[k] \cup MayReplace(k)
Settled(m) == \A k \in Curated : Value(m, k) \in Ok(k)

\* What a run would write is settled too.  A scope that a flag or a filter decided is
\* not written, because the flag or the filter marks the names.
RunInv ==
    /\ run = [k \in Keys |-> run[k]]
    /\ \A k \in Curated \ (RunOnly \cup ephemeral) : run[k] \in Ok(k)
    /\ "use_following" \in ephemeral => "usernames" \in ephemeral
    /\ run.wall # {} /\ stage \notin {"args", "walls"} => "usernames" \in ephemeral
    /\ stage = "args" => ephemeral = {}

\* Every file that the next start may read is settled, and so is the schema.
CuratedInv ==
    /\ given = [k \in Keys |-> given[k]] /\ given["use_following"] \subseteq BOOLEAN
    /\ "yaml" \in DOMAIN files => Settled(files["yaml"])
    /\ "ini" \in DOMAIN files => Settled(files["ini"]) /\ DOMAIN files["ini"] \subseteq IniKeys
    /\ DOMAIN files \cap {"yaml", "ini"} = {} => Settled(<<>>)
    /\ stage = "parity" => "ini" \in DOMAIN files
    /\ stage \in Working \cup {"parity", "migrated"} => Settled(schema) /\ "yaml" \in DOMAIN files
    /\ stage \in Working => RunInv

\* It means that the next start finds the user's settings.
LEMMA CuratedMeans == CuratedInv => CuratedKept
<1> SUFFICES ASSUME CuratedInv, NEW k \in Curated PROVE OnDisk(k) \in Ok(k)
  BY DEF CuratedKept, Ok
<1>1. CASE "yaml" \in DOMAIN files
  BY <1>1 DEF OnDisk, CuratedInv, Settled
<1>2. CASE "yaml" \notin DOMAIN files /\ "ini" \in DOMAIN files
  BY <1>2 DEF OnDisk, CuratedInv, Settled
<1>3. CASE DOMAIN files \cap {"yaml", "ini"} = {}
  <2>1. OnDisk(k) = Default[k]
    BY <1>3 DEF OnDisk
  <2>2. Value(<<>>, k) = Default[k]
    BY DEF Value
  <2> QED
    BY <1>3, <2>1, <2>2 DEF CuratedInv, Settled
<1> QED
  BY <1>1, <1>2, <1>3

\* What the user has given stays allowed.
LEMMA OkGrows ==
    ASSUME \A k \in Curated : given[k] \subseteq given'[k]
    PROVE  \A k \in Curated : \A v : v \in Ok(k) => v \in Ok(k)'
<1>1. given["use_following"] \subseteq given'["use_following"]
      /\ given["usernames"] \subseteq given'["usernames"]
  BY DEF Curated
<1>2. given.use_following \subseteq given'.use_following
      /\ given.usernames \subseteq given'.usernames
  BY <1>1
<1>3. \A k : \A v : v \in MayReplace(k) => v \in MayReplace(k)'
  BY <1>2 DEF MayReplace
<1> QED
  BY <1>3 DEF Ok

\* A step of a run keeps the settings if what it leaves unmarked is settled.
LEMMA DoesCurated ==
    ASSUME CuratedInv, NEW r, NEW e, Does(r, e),
           given' = [k \in Keys |-> given'[k]], given'["use_following"] \subseteq BOOLEAN,
           \A k \in Curated : given[k] \subseteq given'[k],
           r = [k \in Keys |-> r[k]],
           \A k \in Curated \ (RunOnly \cup e) : r[k] \in Ok(k)',
           "use_following" \in e => "usernames" \in e,
           r.wall # {} /\ stage' # "walls" => "usernames" \in e
    PROVE  CuratedInv'
<1>1. /\ stage \in Working /\ stage' \in Working /\ stage' \notin {"args", "parity", "migrated"}
      /\ run' = r /\ ephemeral' = e /\ "yaml" \in DOMAIN files
      /\ Settled(schema) /\ Settled(files["yaml"])
  BY DEF Does, Working, Saves, Assigns, CuratedInv
<1>2. \A k \in Curated : \A v : v \in Ok(k) => v \in Ok(k)'
  BY OkGrows
<1>3. \A m : Settled(m) => \A k \in Curated : Value(m, k) \in Ok(k)'
  BY <1>2 DEF Settled
<1>4. RunInv'
  BY <1>1 DEF RunInv
<1>5. CASE Assigns(r, e)
  <2>1. files' = files /\ schema' = schema
    BY <1>5 DEF Assigns, diskVars
  <2>2. \A k \in Curated : Value(files'["yaml"], k) \in Ok(k)' /\ Value(schema', k) \in Ok(k)'
    BY <1>1, <1>3, <2>1
  <2>3. "ini" \in DOMAIN files' => /\ \A k \in Curated : Value(files'["ini"], k) \in Ok(k)'
                                   /\ DOMAIN files'["ini"] \subseteq IniKeys
    BY <1>3, <2>1 DEF CuratedInv
  <2> QED
    BY <1>1, <1>4, <2>1, <2>2, <2>3 DEF CuratedInv, Settled
<1>6. CASE Saves(r, e)
  <2>1. Saved(schema, r, e)
    BY <1>6 DEF Saves
  <2>2. \A k \in Curated : k \in Keys \ {"scan_settle_s"}
    BY KeysType DEF Curated
  <2>3. ASSUME NEW k \in Curated
        PROVE  Value(files'["yaml"], k) \in Ok(k)' /\ Value(schema', k) \in Ok(k)'
    <3>1. k \in Changed(schema, r, e) => k \notin RunOnly \cup e
      BY DEF Changed
    <3>2. Value(schema, k) \in Ok(k)'
      BY <1>1, <1>3
    <3> QED
      BY <2>1, <2>2, <3>1, <3>2, SavedValue
  <2>4. "ini" \in DOMAIN files' => /\ \A k \in Curated : Value(files'["ini"], k) \in Ok(k)'
                                   /\ DOMAIN files'["ini"] \subseteq IniKeys
    BY <1>3, <2>1, SavedValue DEF CuratedInv
  <2>5. "yaml" \in DOMAIN files'
    BY <2>1, SavedValue
  <2> QED
    BY <1>1, <1>4, <2>3, <2>4, <2>5 DEF CuratedInv, Settled
<1> QED
  BY <1>5, <1>6 DEF Does

\* Assigning one key.
LEMMA OneKey ==
    ASSUME NEW r, r = [k \in Keys |-> r[k]], NEW x, NEW v, NEW n, n = [r EXCEPT ![x] = v]
    PROVE  /\ n = [k \in Keys |-> n[k]]
           /\ \A k \in Keys : k # x => n[k] = r[k]
           /\ x \in Keys => n[x] = v
<1>1. DOMAIN r = Keys
  OBVIOUS
<1>2. n = [k \in Keys |-> IF k = x THEN v ELSE r[k]]
  BY <1>1
<1> QED
  BY <1>2

\* The steps that touch no setting of the user's.
PlainStep ==
    ValidateToken \/ ValidateKey \/ UpdateDeviceId \/ SetupSession \/ NamesStand \/ SavedInRun

\* Such a step.
Plainly(r) ==
    /\ Does(r, ephemeral) /\ given' = given
    /\ r = [k \in Keys |-> r[k]] /\ \A k \in Curated : r[k] = run[k]
    /\ stage \notin {"args", "walls"} /\ stage' # "walls"
    /\ stage' = "running" <=> stage = "running"

\* They are such steps.
LEMMA PlainSteps ==
    ASSUME PlainStep, RunInv
    PROVE  \E r : Plainly(r)
<1> DEFINE token == [run EXCEPT !.token = "browser"]
           key == [run EXCEPT !.check_key = "guessed"]
           device == [run EXCEPT !.device_id = TRUE]
           login == [run EXCEPT !.token = IF @ = "bad" THEN "login" ELSE @]
           Same1(r) == r = [k \in Keys |-> r[k]] /\ \A k \in Curated : r[k] = run[k]
<1>0. Curated \subseteq Keys /\ Curated \cap {"token", "check_key", "device_id"} = {}
  BY KeysType DEF Curated
<1>1. Same1(run)
  BY DEF RunInv
<1>2. Same1(token) /\ Same1(key)
  BY <1>0, <1>1, OneKey
<1>3. Same1(device) /\ Same1(login)
  BY <1>0, <1>1, OneKey
<1>4. PICK r \in {run, token, key, device, login} :
         /\ Does(r, ephemeral) /\ given' = given
         /\ stage \notin {"args", "walls"} /\ stage' # "walls"
         /\ stage' = "running" <=> stage = "running"
  <2>1. CASE ValidateToken
    BY <2>1 DEF ValidateToken, Does, Working, GoesTo, Same
  <2>2. CASE ValidateKey
    BY <2>2 DEF ValidateKey, Does, Working, GoesTo
  <2>3. CASE UpdateDeviceId
    BY <2>3 DEF UpdateDeviceId, Does, Working, GoesTo
  <2>4. CASE SetupSession
    BY <2>4 DEF SetupSession, Does, Working, GoesTo
  <2>5. CASE NamesStand
    BY <2>5 DEF NamesStand, Does, Working, GoesTo, Same
  <2>6. CASE SavedInRun
    BY <2>6 DEF SavedInRun, Does, Working, GoesTo, Same
  <2> QED
    BY <2>1, <2>2, <2>3, <2>4, <2>5, <2>6 DEF PlainStep
<1>5. Same1(r)
  BY <1>1, <1>2, <1>3
<1> HIDE DEF token, key, device, login
<1> QED
  BY <1>4, <1>5 DEF Plainly

\* They keep the settings.
LEMMA PlainCurated ==
    ASSUME CuratedInv, PlainStep
    PROVE  CuratedInv'
<1>1. stage \in Working
  BY DEF PlainStep, ValidateToken, ValidateKey, UpdateDeviceId, SetupSession, NamesStand,
         SavedInRun, Working
<1>2. RunInv
  BY <1>1 DEF CuratedInv
<1>3. PICK r : Plainly(r)
  BY <1>2, PlainSteps
<1>4. \A k \in Curated : Ok(k)' = Ok(k)
  BY <1>3 DEF Plainly, Ok, MayReplace
<1>5. /\ \A k \in Curated \ (RunOnly \cup ephemeral) : r[k] \in Ok(k)'
      /\ r = [k \in Keys |-> r[k]] /\ r.wall = run.wall
  BY <1>2, <1>3, <1>4 DEF Plainly, RunInv, Curated
<1> QED
  BY <1>2, <1>3, <1>5, DoesCurated DEF Plainly, RunInv, CuratedInv

-----------------------------------------------------------------------------
(* The flags.                                                              *)

\* What the flags make of the run.
Mapped == Over(UserFlags, Over(ModeFlags, Over(OtherFlags, run)))

\* The flags set no key but their own.
LEMMA MappedValue ==
    ASSUME RunInv
    PROVE  /\ Mapped = [k \in Keys |-> Mapped[k]]
           /\ Mapped["wall"] = IF Has("wall") THEN flags["wall"] ELSE run["wall"]
           /\ Mapped["usernames"] = IF Has("wall") THEN flags["wall"]
                                    ELSE IF Has("users") THEN flags["users"] ELSE run["usernames"]
           /\ Mapped["use_following"] = IF Has("following") THEN TRUE ELSE run["use_following"]
           /\ ~Has("mode") /\ ~Has("wall") => Mapped["download_mode"] = run["download_mode"]
           /\ Mapped["directory"] = run["directory"]
<1> DEFINE o == Over(OtherFlags, run)
           m == Over(ModeFlags, o)
<1>1. DOMAIN NoFlags = {}
  BY DEF NoFlags
<1>2. DOMAIN OtherFlags
      \subseteq {"token", "retries", "interactive", "session_baseline", "daemon_mode"}
  <2> DEFINE t == IF Has("token") THEN [token |-> "flag"] ELSE NoFlags
             r == IF Has("retries") THEN [retries |-> "flag"] ELSE NoFlags
             q == IF Has("quiet") THEN [interactive |-> FALSE] ELSE NoFlags
             f == IF Has("full_pass") THEN [session_baseline |-> "flag"] ELSE NoFlags
             d == IF Has("daemon") THEN [daemon_mode |-> TRUE, interactive |-> FALSE] ELSE NoFlags
  <2>1. DOMAIN t \subseteq {"token"} /\ DOMAIN r \subseteq {"retries"}
        /\ DOMAIN q \subseteq {"interactive"} /\ DOMAIN f \subseteq {"session_baseline"}
        /\ DOMAIN d \subseteq {"daemon_mode", "interactive"}
    BY <1>1
  <2>2. OtherFlags = Over(t, Over(r, Over(q, Over(f, d))))
    BY DEF OtherFlags
  <2> HIDE DEF t, r, q, f, d
  <2>3. DOMAIN OtherFlags = DOMAIN t \cup (DOMAIN r \cup (DOMAIN q \cup (DOMAIN f \cup DOMAIN d)))
    <3>1. DOMAIN Over(f, d) = DOMAIN f \cup DOMAIN d
      BY OverDomain, Zenon
    <3>2. DOMAIN Over(q, Over(f, d)) = DOMAIN q \cup DOMAIN Over(f, d)
      BY OverDomain, Zenon
    <3>3. DOMAIN Over(r, Over(q, Over(f, d))) = DOMAIN r \cup DOMAIN Over(q, Over(f, d))
      BY OverDomain, Zenon
    <3>4. DOMAIN OtherFlags = DOMAIN t \cup DOMAIN Over(r, Over(q, Over(f, d)))
      BY <2>2, OverDomain, Zenon
    <3> QED
      BY <3>1, <3>2, <3>3, <3>4, Zenon
  <2> QED
    BY <2>1, <2>3
<1>3. DOMAIN ModeFlags \subseteq {"download_mode"}
      /\ (~Has("mode") /\ ~Has("wall") => DOMAIN ModeFlags = {})
  BY <1>1 DEF ModeFlags
<1>4. /\ DOMAIN UserFlags \subseteq {"usernames", "wall", "use_following"}
      /\ "wall" \in DOMAIN UserFlags <=> Has("wall")
      /\ "usernames" \in DOMAIN UserFlags <=> Has("wall") \/ Has("users")
      /\ "use_following" \in DOMAIN UserFlags <=> Has("following")
      /\ Has("wall") => UserFlags["wall"] = flags["wall"] /\ UserFlags["usernames"] = flags["wall"]
      /\ ~Has("wall") /\ Has("users") => UserFlags["usernames"] = flags["users"]
      /\ Has("following") => UserFlags["use_following"] = TRUE
  <2> DEFINE u == IF Has("users") THEN [usernames |-> flags["users"]] ELSE NoFlags
             f == IF Has("following") THEN [use_following |-> TRUE] ELSE NoFlags
             w == [usernames |-> flags["wall"], wall |-> flags["wall"]]
  <2>1. /\ DOMAIN u = IF Has("users") THEN {"usernames"} ELSE {}
        /\ DOMAIN f = IF Has("following") THEN {"use_following"} ELSE {}
        /\ DOMAIN w = {"usernames", "wall"}
    BY <1>1
  <2>2. /\ Has("users") => u["usernames"] = flags["users"]
        /\ Has("following") => f["use_following"] = TRUE
        /\ w["usernames"] = flags["wall"] /\ w["wall"] = flags["wall"]
    OBVIOUS
  <2>3. UserFlags = IF Has("wall") THEN Over(w, f) ELSE Over(u, f)
    BY DEF UserFlags
  <2> HIDE DEF u, f, w
  <2>4. CASE Has("wall")
    <3>1. UserFlags = Over(w, f)
      BY <2>3, <2>4
    <3>2. DOMAIN UserFlags = DOMAIN w \cup DOMAIN f
      BY <3>1, OverDomain
    <3>3. UserFlags["wall"] = flags["wall"]
      BY <2>1, <2>2, <3>1, OverFirst
    <3>4. UserFlags["usernames"] = flags["wall"]
      BY <2>1, <2>2, <3>1, OverFirst
    <3>5. Has("following") => UserFlags["use_following"] = TRUE
      BY <2>1, <2>2, <3>1, OverSecond
    <3> QED
      BY <2>1, <2>4, <3>2, <3>3, <3>4, <3>5
  <2>5. CASE ~Has("wall")
    <3>1. UserFlags = Over(u, f)
      BY <2>3, <2>5
    <3>2. DOMAIN UserFlags = DOMAIN u \cup DOMAIN f
      BY <3>1, OverDomain
    <3>3. Has("users") => UserFlags["usernames"] = flags["users"]
      BY <2>1, <2>2, <3>1, OverFirst
    <3>4. Has("following") => UserFlags["use_following"] = TRUE
      BY <2>1, <2>2, <3>1, OverSecond
    <3> QED
      BY <2>1, <2>5, <3>2, <3>3, <3>4
  <2> QED
    BY <2>4, <2>5
<1>5. DOMAIN run = Keys
  BY DEF RunInv
<1>6. DOMAIN o = DOMAIN OtherFlags \cup Keys
  BY <1>5, OverDomain
<1>7. ASSUME NEW k \in {"wall", "usernames", "use_following", "download_mode", "directory"}
      PROVE  k \in Keys /\ o[k] = run[k]
  <2>1. k \in Keys \ DOMAIN OtherFlags
    BY <1>2, KeysType DEF Curated
  <2> QED
    BY <1>5, <2>1, OverSecond
<1> HIDE DEF o
<1>8. DOMAIN m = DOMAIN ModeFlags \cup DOMAIN o
  BY OverDomain
<1>9. ASSUME NEW k \in {"wall", "usernames", "use_following", "download_mode", "directory"},
             k \notin DOMAIN ModeFlags
      PROVE  m[k] = run[k]
  <2>1. k \in DOMAIN o \ DOMAIN ModeFlags /\ o[k] = run[k]
    BY <1>6, <1>7, <1>9
  <2> QED
    BY <2>1, OverSecond
<1> HIDE DEF m
<1>10. Mapped = Over(UserFlags, m)
  BY DEF Mapped, m, o
<1>11. DOMAIN Mapped = DOMAIN UserFlags \cup DOMAIN m
  BY <1>10, OverDomain
<1>12. DOMAIN Mapped = Keys
  <2>1. DOMAIN OtherFlags \subseteq Keys
    BY <1>2, KeysType DEF Curated
  <2>2. DOMAIN ModeFlags \subseteq Keys /\ DOMAIN UserFlags \subseteq Keys
    BY <1>3, <1>4, KeysType DEF Curated
  <2> QED
    BY <1>6, <1>8, <1>11, <2>1, <2>2
<1>13. Mapped = [k \in Keys |-> Mapped[k]]
  <2>1. Over(UserFlags, m) = [k \in DOMAIN UserFlags \cup DOMAIN m |-> Over(UserFlags, m)[k]]
    BY OverFunction
  <2> QED
    BY <1>10, <1>11, <1>12, <2>1
<1>14. ASSUME NEW k \in DOMAIN UserFlags PROVE Mapped[k] = UserFlags[k]
  BY <1>10, OverFirst
<1>15. ASSUME NEW k \in {"wall", "usernames", "use_following", "download_mode", "directory"},
              k \notin DOMAIN ModeFlags \cup DOMAIN UserFlags
       PROVE  Mapped[k] = run[k]
  <2>1. k \in DOMAIN m \ DOMAIN UserFlags
    BY <1>6, <1>7, <1>8, <1>15
  <2>2. m[k] = run[k]
    BY <1>9, <1>15
  <2> QED
    BY <1>10, <2>1, <2>2, OverSecond
<1>16. Mapped["wall"] = IF Has("wall") THEN flags["wall"] ELSE run["wall"]
  BY <1>3, <1>4, <1>14, <1>15
<1>17. Mapped["usernames"] = IF Has("wall") THEN flags["wall"]
                             ELSE IF Has("users") THEN flags["users"] ELSE run["usernames"]
  BY <1>3, <1>4, <1>14, <1>15
<1>18. Mapped["use_following"] = IF Has("following") THEN TRUE ELSE run["use_following"]
  BY <1>3, <1>4, <1>14, <1>15
<1>19. ~Has("mode") /\ ~Has("wall") => Mapped["download_mode"] = run["download_mode"]
  BY <1>3, <1>4, <1>15
<1>20. Mapped["directory"] = run["directory"]
  BY <1>3, <1>4, <1>15
<1> QED
  BY <1>13, <1>16, <1>17, <1>18, <1>19, <1>20

\* The flags mark what they override.
LEMMA ArgsCurated ==
    ASSUME CuratedInv, MapArgs
    PROVE  CuratedInv'
<1>1. stage = "args" /\ stage \in Working /\ RunInv /\ ephemeral = {}
  BY DEF MapArgs, Working, CuratedInv, RunInv
<1>2. given' = given /\ \A k \in Curated : Ok(k)' = Ok(k)
  BY DEF MapArgs, Ok, MayReplace
<1> DEFINE quit == [Mapped EXCEPT !.daemon_mode = FALSE]
           Fine(r) == /\ r = [k \in Keys |-> r[k]]
                      /\ \A k \in Curated \ {"daemon_mode"} : r[k] = Mapped[k]
<1>3. Fine(Mapped) /\ Fine(quit)
  BY <1>1, MappedValue, OneKey, KeysType
<1>4. PICK r \in {Mapped, quit}, e \in {Marked, Marked \cup {"daemon_mode"}} : Does(r, e)
  BY DEF MapArgs, Mapped, Does, Working, GoesTo
<1>5. Fine(r)
  BY <1>3
<1> HIDE DEF quit
<1>6. /\ "usernames" \in e <=> Has("users") \/ Has("wall") \/ Has("following")
      /\ "use_following" \in e <=> Has("following")
      /\ "wall" \in e <=> Has("wall")
      /\ "download_mode" \in e <=> Has("mode") \/ Has("wall")
  BY DEF Marked
<1>7. ASSUME NEW k \in Curated \ (RunOnly \cup e) PROVE r[k] \in Ok(k)'
  <2>1. r[k] = Mapped[k]
    BY <1>5, <1>7 DEF RunOnly
  <2>2. Mapped[k] = run[k]
    BY <1>1, <1>6, <1>7, MappedValue DEF Curated, RunOnly
  <2>3. run[k] \in Ok(k)
    BY <1>1, <1>7 DEF RunInv
  <2> QED
    BY <1>2, <2>1, <2>2, <2>3
<1>8. stage' = "walls"
  BY DEF MapArgs, GoesTo
<1> QED
  BY <1>2, <1>4, <1>5, <1>6, <1>7, <1>8, DoesCurated DEF CuratedInv

\* The scope of the filters is marked on one side or the other.
LEMMA WallsCurated ==
    ASSUME CuratedInv, ValidateWalls
    PROVE  CuratedInv'
<1>1. stage = "walls" /\ stage \in Working /\ RunInv
  BY DEF ValidateWalls, Working, CuratedInv
<1>2. given' = given /\ (\A k \in Curated : Ok(k)' = Ok(k)) /\ stage' = "names"
  BY DEF ValidateWalls, GoesTo, Ok, MayReplace
<1>3. CASE run.wall = {}
  <2>1. Does(run, ephemeral)
    BY <1>3 DEF ValidateWalls, Does, Working, GoesTo, Same
  <2> QED
    BY <1>1, <1>2, <1>3, <2>1, DoesCurated DEF CuratedInv, RunInv
<1>4. CASE run.wall # {}
  <2> DEFINE narrow == [run EXCEPT !.wall = @ \cap run.usernames]
             scope == [run EXCEPT !.usernames = run.wall]
  <2>1. /\ narrow = [k \in Keys |-> narrow[k]] /\ \A k \in Keys \ {"wall"} : narrow[k] = run[k]
        /\ scope = [k \in Keys |-> scope[k]] /\ \A k \in Keys \ {"usernames"} : scope[k] = run[k]
    BY <1>1, OneKey DEF RunInv
  <2>2. CASE Narrowed
    <3>1. Does(narrow, ephemeral \cup {"wall"}) /\ "usernames" \in ephemeral
      BY <1>4, <2>2 DEF ValidateWalls, FilterScope, Narrowed, Does, Working, GoesTo
    <3> HIDE DEF narrow
    <3>2. \A k \in Curated \ (RunOnly \cup ephemeral \cup {"wall"}) : narrow[k] \in Ok(k)'
      BY <1>1, <1>2, <2>1, KeysType DEF RunInv
    <3> QED
      BY <1>1, <1>2, <2>1, <3>1, <3>2, DoesCurated DEF CuratedInv, RunInv
  <2>3. CASE ~Narrowed
    <3>1. Does(scope, ephemeral \cup {"usernames"})
      BY <1>4, <2>3 DEF ValidateWalls, FilterScope, Does, Working, GoesTo
    <3> HIDE DEF scope
    <3>2. \A k \in Curated \ (RunOnly \cup ephemeral \cup {"usernames"}) : scope[k] \in Ok(k)'
      BY <1>1, <1>2, <2>1, KeysType DEF RunInv
    <3> QED
      BY <1>1, <1>2, <2>1, <3>1, <3>2, DoesCurated DEF CuratedInv, RunInv
  <2> QED
    BY <2>2, <2>3
<1> QED
  BY <1>3, <1>4

\* A step that asks for the names.
Named(r) ==
    /\ Does(r, ephemeral) /\ stage = "names" /\ stage' = "token"
    /\ r = [k \in Keys |-> r[k]] /\ \A k \in Keys : k # "usernames" => r[k] = run[k]
    /\ \/ given' = given /\ r = run
       \/ /\ given' = [given EXCEPT !.usernames = @ \cup {r.usernames}]
          /\ Placeholder \in run["usernames"]

\* Only a placeholder is replaced.
LEMMA NamesNamed ==
    ASSUME RunInv, ValidateNames
    PROVE  \E r : Named(r)
<1>1. stage = "names" /\ stage' = "token"
  BY DEF ValidateNames, GoesTo
<1> DEFINE dropped == [run EXCEPT !.usernames = @ \ {Placeholder}]
<1>2. CASE dropped = run
  <2>1. Does(run, ephemeral) /\ given' = given
    BY <1>2 DEF ValidateNames, Does, Working, GoesTo, Same
  <2>2. Named(run)
    BY <1>1, <2>1 DEF Named, RunInv
  <2> QED
    BY <2>2
<1>3. CASE dropped # run
  <2>1. PICK r \in {dropped} \cup {[dropped EXCEPT !.usernames = @ \cup {c}] : c \in Creators} :
           /\ Saves(r, ephemeral) /\ given' = [given EXCEPT !.usernames = @ \cup {r.usernames}]
    BY <1>3 DEF ValidateNames
  <2>2. Does(r, ephemeral)
    BY <1>1, <2>1 DEF Does, Working, ValidateNames, GoesTo
  <2>3. dropped = [k \in Keys |-> dropped[k]]
        /\ \A k \in Keys : k # "usernames" => dropped[k] = run[k]
    BY OneKey DEF RunInv
  <2>4. r = [k \in Keys |-> r[k]] /\ \A k \in Keys : k # "usernames" => r[k] = run[k]
    <3>1. CASE r = dropped
      BY <2>3, <3>1
    <3>2. CASE \E c \in Creators : r = [dropped EXCEPT !.usernames = @ \cup {c}]
      <4> HIDE DEF dropped
      <4> QED
        BY <2>3, <3>2, OneKey
    <3> QED
      BY <2>1, <3>1, <3>2
  <2>5. Placeholder \in run["usernames"]
    <3> SUFFICES ASSUME Placeholder \notin run["usernames"] PROVE FALSE
      OBVIOUS
    <3>1. run["usernames"] \ {Placeholder} = run["usernames"]
      OBVIOUS
    <3>2. dropped = [run EXCEPT !["usernames"] = run["usernames"]]
      BY <3>1
    <3>3. dropped = run
      BY <3>2 DEF RunInv
    <3> QED
      BY <1>3, <3>3
  <2>6. Named(r)
    BY <1>1, <2>1, <2>2, <2>4, <2>5 DEF Named
  <2> QED
    BY <2>6
<1> QED
  BY <1>2, <1>3

\* A new answer is the user's.
LEMMA NamesCurated ==
    ASSUME CuratedInv, ValidateNames
    PROVE  CuratedInv'
<1>1. stage = "names" /\ stage \in Working /\ RunInv
  BY DEF ValidateNames, Working, CuratedInv
<1>2. PICK r : Named(r)
  BY <1>1, NamesNamed
<1>3. CASE given' = given /\ r = run
  <2>1. \A k \in Curated : Ok(k)' = Ok(k)
    BY <1>3 DEF Ok, MayReplace
  <2>2. /\ Does(run, ephemeral) /\ stage' = "token"
        /\ given' = [k \in Keys |-> given'[k]] /\ given'["use_following"] \subseteq BOOLEAN
        /\ \A k \in Curated : given[k] \subseteq given'[k]
    BY <1>2, <1>3 DEF Named, CuratedInv
  <2>3. \A k \in Curated \ (RunOnly \cup ephemeral) : run[k] \in Ok(k)'
    BY <1>1, <2>1 DEF RunInv
  <2> QED
    BY <1>1, <2>2, <2>3, DoesCurated DEF RunInv
<1>4. CASE given' = [given EXCEPT !.usernames = @ \cup {r.usernames}]
  <2>1. given = [k \in Keys |-> given[k]] /\ "usernames" \in Keys
    BY KeysType DEF CuratedInv, Curated
  <2>2. /\ given' = [k \in Keys |-> given'[k]]
        /\ \A k \in Keys : k # "usernames" => given'[k] = given[k]
        /\ given'["usernames"] = given["usernames"] \cup {r.usernames}
    BY <1>4, <2>1, OneKey
  <2>3. \A k \in Curated : given[k] \subseteq given'[k]
    BY <2>2, KeysType
  <2>4. given'["use_following"] \subseteq BOOLEAN
    BY <2>2, KeysType DEF CuratedInv, Curated
  <2>5. \A k \in Curated : \A v : v \in Ok(k) => v \in Ok(k)'
    BY <2>3, OkGrows
  <2>6. ASSUME NEW k \in Curated \ (RunOnly \cup ephemeral) PROVE r[k] \in Ok(k)'
    <3>1. CASE k = "usernames"
      BY <2>2, <3>1 DEF Ok
    <3>2. CASE k # "usernames"
      BY <1>1, <1>2, <2>5, <2>6, <3>2, KeysType DEF RunInv, Named
    <3> QED
      BY <3>1, <3>2
  <2>7. r.wall = run.wall
    BY <1>2, KeysType DEF Curated, Named
  <2> QED
    BY <1>1, <1>2, <2>2, <2>3, <2>4, <2>6, <2>7, DoesCurated DEF RunInv, Named
<1> QED
  BY <1>2, <1>3, <1>4 DEF Named

\* A step that puts one answer, or the working directory, into the run.
Answers(r, x) ==
    /\ Does(r, ephemeral)
    /\ stage \in {"directory", "mode"} /\ stage' \in {"mode", "api"}
    /\ r = [k \in Keys |-> r[k]] /\ \A k \in Curated \ {x} : r[k] = run[k]
    /\ \/ given' = given /\ r[x] = run[x]
       \/ given' = given /\ x = "directory" /\ r[x] = "cwd"
       \/ given' = [given EXCEPT ![x] = @ \cup {r[x]}]

\* It keeps the settings.
LEMMA AnswersCurated ==
    ASSUME CuratedInv, NEW r, NEW x \in {"directory", "download_mode"}, Answers(r, x)
    PROVE  CuratedInv'
<1>1. RunInv
  BY DEF Answers, Working, CuratedInv
<1>2. given = [k \in Keys |-> given[k]] /\ Curated \subseteq Keys
      /\ given["use_following"] \subseteq BOOLEAN
  BY KeysType DEF CuratedInv
<1>3. /\ given' = [k \in Keys |-> given'[k]]
      /\ \A k \in Keys : given[k] \subseteq given'[k]
      /\ given'["use_following"] \subseteq BOOLEAN
      /\ given' # given => r[x] \in given'[x]
  <2>1. CASE given' = given
    BY <1>2, <2>1
  <2>2. CASE given' = [given EXCEPT ![x] = @ \cup {r[x]}]
    <3>1. x \in Keys /\ "use_following" \in Keys /\ x # "use_following"
      BY <1>2 DEF Curated
    <3>2. /\ given' = [k \in Keys |-> given'[k]]
          /\ \A k \in Keys : k # x => given'[k] = given[k]
          /\ given'[x] = given[x] \cup {r[x]}
      BY <1>2, <2>2, <3>1, OneKey
    <3> QED
      BY <1>2, <3>1, <3>2
  <2> QED
    BY <2>1, <2>2 DEF Answers
<1>4. \A k \in Curated : \A v : v \in Ok(k) => v \in Ok(k)'
  BY <1>2, <1>3, OkGrows
<1>5. ASSUME NEW k \in Curated \ (RunOnly \cup ephemeral) PROVE r[k] \in Ok(k)'
  <2>1. run[k] \in Ok(k)'
    BY <1>1, <1>4, <1>5 DEF RunInv
  <2>2. CASE r[k] = run[k]
    BY <2>1, <2>2
  <2>3. CASE k = x /\ r[x] \in given'[x]
    BY <2>3 DEF Ok
  <2>4. CASE k = "directory" /\ r[k] = "cwd"
    BY <2>4 DEF Ok, MayReplace
  <2>5. k # x => r[k] = run[k]
    BY <1>5 DEF Answers
  <2>6. k = x => r[k] = run[k] \/ (k = "directory" /\ r[k] = "cwd") \/ r[x] \in given'[x]
    <3>1. CASE given' = given
      <4>1. CASE given' = [given EXCEPT ![x] = @ \cup {r[x]}]
        <5>1. x \in Keys
          BY <1>2 DEF Curated
        <5> QED
          BY <1>2, <4>1, <5>1, OneKey
      <4> QED
        BY <4>1 DEF Answers
    <3>2. CASE given' # given
      BY <1>3, <3>2
    <3> QED
      BY <3>1, <3>2
  <2> QED
    BY <2>2, <2>3, <2>4, <2>5, <2>6
<1>6. r.wall = run.wall
  BY DEF Curated, Answers
<1>7. stage \notin {"args", "walls"} /\ stage' # "walls" /\ Does(r, ephemeral)
      /\ r = [k \in Keys |-> r[k]]
  BY DEF Answers
<1> QED
  BY <1>1, <1>2, <1>3, <1>5, <1>6, <1>7, DoesCurated DEF RunInv

\* Where the files go.
LEMMA DirectoryAnswers ==
    ASSUME CuratedInv, ValidateDirectory
    PROVE  \E r : Answers(r, "directory")
<1>1. RunInv /\ Curated \subseteq Keys
  BY KeysType DEF ValidateDirectory, Working, CuratedInv
<1>2. PICK temp \in {run.temp_folder, "system"} :
         LET r == [run EXCEPT !.temp_folder = temp] IN
         \/ /\ Assigns([r EXCEPT !.directory = IF @ = "local" THEN "cwd" ELSE @], ephemeral)
            /\ UNCHANGED given
         \/ /\ Saves([r EXCEPT !.directory = "asked"], ephemeral)
            /\ given' = [given EXCEPT !.directory = @ \cup {"asked"}]
  BY DEF ValidateDirectory
<1> DEFINE t == [run EXCEPT !.temp_folder = temp]
           cwd == [t EXCEPT !.directory = IF @ = "local" THEN "cwd" ELSE @]
           asked == [t EXCEPT !.directory = "asked"]
<1>3. t = [k \in Keys |-> t[k]] /\ \A k \in Keys : k # "temp_folder" => t[k] = run[k]
  BY <1>1, OneKey DEF RunInv
<1>4. \A k \in Curated : t[k] = run[k]
  BY <1>1, <1>3 DEF Curated
<1>5. "directory" \in Keys /\ t["directory"] = run["directory"]
  BY <1>1, <1>4 DEF Curated
<1>6. stage \in Working /\ stage' \in Working \ {"args"} /\ stage' = "mode"
      /\ stage = "directory" /\ UNCHANGED <<flags, driven>>
  BY DEF ValidateDirectory, GoesTo, Working
<1>7. \/ Assigns(cwd, ephemeral) /\ given' = given
      \/ Saves(asked, ephemeral) /\ given' = [given EXCEPT !.directory = @ \cup {"asked"}]
  BY <1>2
<1> HIDE DEF t
<1>8. /\ cwd = [k \in Keys |-> cwd[k]]
      /\ \A k \in Keys : k # "directory" => cwd[k] = t[k]
      /\ cwd["directory"] = run["directory"] \/ cwd["directory"] = "cwd"
  BY <1>3, <1>5, OneKey
<1>9. /\ asked = [k \in Keys |-> asked[k]]
      /\ \A k \in Keys : k # "directory" => asked[k] = t[k]
      /\ asked["directory"] = "asked"
  BY <1>3, <1>5, OneKey
<1> HIDE DEF cwd, asked
<1>10. CASE Assigns(cwd, ephemeral) /\ given' = given
  <2>1. Answers(cwd, "directory")
    BY <1>1, <1>4, <1>6, <1>8, <1>10 DEF Answers, Does
  <2> QED
    BY <2>1
<1>11. CASE Saves(asked, ephemeral) /\ given' = [given EXCEPT !.directory = @ \cup {"asked"}]
  <2>1. Answers(asked, "directory")
    BY <1>1, <1>4, <1>6, <1>9, <1>11 DEF Answers, Does
  <2> QED
    BY <2>1
<1> QED
  BY <1>7, <1>10, <1>11

\* What is downloaded.
LEMMA ModeAnswers ==
    ASSUME CuratedInv, ValidateMode
    PROVE  \E r : Answers(r, "download_mode")
<1>1. RunInv /\ Curated \subseteq Keys
  BY KeysType DEF ValidateMode, Working, CuratedInv
<1>2. stage \in Working /\ stage' \in Working \ {"args"} /\ stage' = "api"
      /\ stage = "mode" /\ UNCHANGED <<flags, driven>>
  BY DEF ValidateMode, GoesTo, Working
<1>3. CASE Assigns(Same, ephemeral) /\ given' = given
  <2>1. Answers(run, "download_mode")
    BY <1>1, <1>2, <1>3 DEF Answers, Does, RunInv, Same
  <2> QED
    BY <2>1
<1>4. CASE \E m : /\ Assigns([run EXCEPT !.download_mode = m], ephemeral)
                  /\ given' = [given EXCEPT !.download_mode = @ \cup {m}]
  <2>1. PICK m : /\ Assigns([run EXCEPT !.download_mode = m], ephemeral)
                 /\ given' = [given EXCEPT !.download_mode = @ \cup {m}]
    BY <1>4
  <2> DEFINE r == [run EXCEPT !.download_mode = m]
  <2>2. Assigns(r, ephemeral)
    BY <2>1
  <2>3. /\ r = [k \in Keys |-> r[k]] /\ r["download_mode"] = m
        /\ \A k \in Keys : k # "download_mode" => r[k] = run[k]
    BY <1>1, OneKey DEF RunInv, Curated
  <2> HIDE DEF r
  <2>4. Answers(r, "download_mode")
    BY <1>1, <1>2, <2>1, <2>2, <2>3 DEF Answers, Does
  <2> QED
    BY <2>4
<1> QED
  BY <1>3, <1>4 DEF ValidateMode

\* The list of the followed creators is written only where the file asks for it.
LEMMA FollowingCurated ==
    ASSUME CuratedInv, ListFollowing \/ RefreshFollowing
    PROVE  CuratedInv'
<1> DEFINE r == [run EXCEPT !.usernames = Followed]
<1>1. RunInv /\ "usernames" \in Keys /\ "use_following" \in Keys /\ Curated \subseteq Keys
  BY KeysType DEF ListFollowing, RefreshFollowing, Working, CuratedInv, Curated
<1>2. given' = given /\ \A k \in Curated : Ok(k)' = Ok(k)
  BY DEF ListFollowing, RefreshFollowing, Ok, MayReplace
<1>3. Does(r, ephemeral) /\ stage \notin {"args", "walls"} /\ stage' # "walls"
  BY DEF ListFollowing, RefreshFollowing, Does, Working, GoesTo
<1>4. run["use_following"] \/ run["usernames"] = {}
  BY DEF ListFollowing, RefreshFollowing
<1>5. /\ r = [k \in Keys |-> r[k]] /\ r["usernames"] = Followed
      /\ \A k \in Keys : k # "usernames" => r[k] = run[k]
  BY <1>1, OneKey DEF RunInv
<1> HIDE DEF r
<1>6. ASSUME "usernames" \notin ephemeral PROVE Followed \in Ok("usernames")
  <2>1. "use_following" \notin ephemeral /\ "use_following" \notin RunOnly
        /\ "usernames" \notin RunOnly
    BY <1>1, <1>6 DEF RunInv, RunOnly
  <2>2. run["use_following"] \in Ok("use_following") /\ run["usernames"] \in Ok("usernames")
    BY <1>1, <1>6, <2>1 DEF RunInv, Curated
  <2>3. run["use_following"] \in given["use_following"]
        /\ given["use_following"] \subseteq BOOLEAN
    BY <2>2 DEF Ok, MayReplace, CuratedInv
  <2>4. CASE run["use_following"]
    BY <2>3, <2>4 DEF Ok, MayReplace
  <2>5. CASE run["usernames"] = {}
    BY <2>2, <2>5 DEF Ok, MayReplace
  <2> QED
    BY <1>4, <2>4, <2>5
<1>7. ASSUME NEW k \in Curated \ (RunOnly \cup ephemeral) PROVE r[k] \in Ok(k)'
  <2>1. CASE k = "usernames"
    BY <1>2, <1>5, <1>6, <1>7, <2>1
  <2>2. CASE k # "usernames"
    BY <1>1, <1>2, <1>5, <1>7, <2>2 DEF RunInv
  <2> QED
    BY <2>1, <2>2
<1>8. r.wall = run.wall
  BY <1>1, <1>5 DEF Curated
<1> QED
  BY <1>1, <1>2, <1>3, <1>5, <1>7, <1>8, DoesCurated DEF CuratedInv, RunInv

\* The names found for ids are not written.
LEMMA IdsCurated ==
    ASSUME CuratedInv, ResolveIds
    PROVE  CuratedInv'
<1>1. stage = "ids" /\ stage \in Working /\ RunInv /\ Curated \subseteq Keys
  BY KeysType DEF ResolveIds, Working, CuratedInv
<1>2. given' = given /\ (\A k \in Curated : Ok(k)' = Ok(k)) /\ stage' = "running"
  BY DEF ResolveIds, GoesTo, Ok, MayReplace
<1>3. CASE run.wall \cap Ids = {}
  <2>1. Does(run, ephemeral)
    BY <1>3 DEF ResolveIds, Does, Working, GoesTo, Same
  <2> QED
    BY <1>1, <1>2, <2>1, DoesCurated DEF CuratedInv, RunInv
<1>4. CASE run.wall \cap Ids # {}
  <2>1. PICK w, u : Assigns([run EXCEPT !.wall = w, !.usernames = u], ephemeral \cup {"wall"})
    BY <1>4 DEF ResolveIds
  <2> DEFINE q == [run EXCEPT !.wall = w]
             r == [q EXCEPT !.usernames = u]
  <2>2. Does(r, ephemeral \cup {"wall"})
    BY <1>1, <2>1 DEF ResolveIds, Does, Working, GoesTo
  <2>3. q = [k \in Keys |-> q[k]] /\ \A k \in Keys : k # "wall" => q[k] = run[k]
    BY <1>1, OneKey DEF RunInv
  <2> HIDE DEF q
  <2>4. r = [k \in Keys |-> r[k]] /\ \A k \in Keys : k # "usernames" => r[k] = q[k]
    BY <2>3, OneKey
  <2> HIDE DEF r
  <2>5. "usernames" \in ephemeral
    BY <1>1, <1>4 DEF RunInv
  <2>6. \A k \in Curated \ (RunOnly \cup (ephemeral \cup {"wall"})) : r[k] \in Ok(k)'
    BY <1>1, <1>2, <2>3, <2>4, <2>5 DEF RunInv
  <2> QED
    BY <1>1, <1>2, <2>2, <2>4, <2>5, <2>6, DoesCurated DEF CuratedInv, RunInv
<1> QED
  BY <1>3, <1>4

\* No step of a run disturbs the settings.
LEMMA RunCurated ==
    ASSUME CuratedInv, RunStep
    PROVE  CuratedInv'
BY PlainCurated, ArgsCurated, WallsCurated, NamesCurated, DirectoryAnswers, ModeAnswers,
   AnswersCurated, FollowingCurated, IdsCurated DEF RunStep, PlainStep

\* A load starts the run with what the file says.
LEMMA LoadsCurated ==
    ASSUME CuratedInv, NEW s, Loads(s), Settled(s)
    PROVE  CuratedInv'
<1>1. /\ Saved(Taken(s), Populated(s), {}) /\ run' = Populated(s) /\ ephemeral' = {}
      /\ stage' = "args" /\ given' = given
  BY DEF Loads
<1>2. \A k \in Curated : Ok(k)' = Ok(k) /\ k \in Keys \ {"scan_settle_s", "session_baseline"}
  BY <1>1, KeysType DEF Ok, MayReplace, Curated
<1>3. \A k \in Curated : Value(Taken(s), k) \in Ok(k) /\ Populated(s)[k] \in Ok(k)
  BY <1>2, TakenValue, PopulatedValue DEF Settled
<1>4. \A k \in Curated : Value(schema', k) \in Ok(k)' /\ Value(files'["yaml"], k) \in Ok(k)'
  BY <1>1, <1>2, <1>3, SavedValue
<1>5. /\ "yaml" \in DOMAIN files'
      /\ "ini" \in DOMAIN files' => "ini" \in DOMAIN files /\ files'["ini"] = files["ini"]
  BY <1>1, SavedValue
<1>6. "ini" \in DOMAIN files' => /\ \A k \in Curated : Value(files'["ini"], k) \in Ok(k)'
                                 /\ DOMAIN files'["ini"] \subseteq IniKeys
  BY <1>2, <1>5 DEF CuratedInv, Settled
<1>7. RunInv'
  BY <1>1, <1>2, <1>3, PopulatedValue DEF RunInv
<1> QED
  BY <1>1, <1>4, <1>5, <1>6, <1>7 DEF CuratedInv, Settled, Working

\* The keys of a config.ini pass through the migration.
LEMMA IniValue ==
    ASSUME NEW m, DOMAIN m \subseteq IniKeys, Settled(m)
    PROVE  Settled(FromIni(m)) /\ Settled(Rendered(FromIni(m)))
<1>1. DOMAIN FromIni(m) = DOMAIN m /\ \A k \in DOMAIN m : FromIni(m)[k] = m[k]
  BY DEF FromIni
<1>2. \A k : Value(FromIni(m), k) = Value(m, k)
  BY <1>1 DEF Value
<1> QED
  BY <1>2, RenderedValue DEF Settled

\* Nor do the migration and the end of the process.
LEMMA MigrationCurated ==
    ASSUME CuratedInv, MigrateWrites \/ MigrateDiverges \/ MigrateRenames \/ Refused
    PROVE  CuratedInv'
<1>1. given' = given /\ \A k \in Curated : Ok(k)' = Ok(k)
  BY DEF MigrateWrites, MigrateDiverges, MigrateRenames, Refused, Gone, Ok, MayReplace
<1>2. \A m : Settled(m) => \A k \in Curated : Value(m, k) \in Ok(k)'
  BY <1>1 DEF Settled
<1>3. CASE MigrateWrites
  <2>1. stage' = "parity"
    BY <1>3 DEF MigrateWrites, GoesTo
  <2>2. /\ DOMAIN files' = DOMAIN files \cup {"yaml"} /\ "ini" \in DOMAIN files
        /\ files'["ini"] = files["ini"] /\ files'["yaml"] = Rendered(schema')
        /\ schema' = FromIni(files["ini"])
    BY <1>3, MigrationFiles
  <2>3. Settled(schema') /\ Settled(files'["yaml"]) /\ Settled(files'["ini"])
    BY <2>2, IniValue DEF CuratedInv
  <2>4. \A k \in Curated : /\ Value(schema', k) \in Ok(k)' /\ Value(files'["yaml"], k) \in Ok(k)'
                           /\ Value(files'["ini"], k) \in Ok(k)'
    BY <1>2, <2>3
  <2> QED
    BY <1>1, <2>1, <2>2, <2>4 DEF CuratedInv, Settled, Working
<1>4. CASE MigrateDiverges
  <2>1. stage' = "off" /\ stage = "parity"
    BY <1>4 DEF MigrateDiverges, Gone
  <2>2. /\ DOMAIN files' = DOMAIN files \ {"yaml"} /\ "ini" \in DOMAIN files'
        /\ files'["ini"] = files["ini"]
    BY <1>4, <2>1, MigrationFiles DEF CuratedInv
  <2>3. \A k \in Curated : Value(files'["ini"], k) \in Ok(k)'
    BY <1>2, <2>2 DEF CuratedInv
  <2> QED
    BY <1>1, <2>1, <2>2, <2>3 DEF CuratedInv, Settled, Working
<1>5. CASE MigrateRenames
  <2>1. stage' = "migrated" /\ stage = "parity"
    BY <1>5 DEF MigrateRenames
  <2>2. Settled(schema) /\ "yaml" \in DOMAIN files
    BY <2>1 DEF CuratedInv
  <2>3. /\ DOMAIN files' = (DOMAIN files \ {"ini"}) \cup {"bak"}
        /\ files'["yaml"] = files["yaml"] /\ schema' = schema
    BY <1>5, <2>2, MigrationFiles
  <2>4. \A k \in Curated : Value(files'["yaml"], k) \in Ok(k)' /\ Value(schema', k) \in Ok(k)'
    BY <1>2, <2>2, <2>3 DEF CuratedInv
  <2> QED
    BY <1>1, <2>1, <2>2, <2>3, <2>4 DEF CuratedInv, Settled, Working
<1>6. CASE Refused
  <2>1. stage' = "off" /\ files' = files
    BY <1>6 DEF Refused, Gone
  <2>2. "yaml" \in DOMAIN files' => \A k \in Curated : Value(files'["yaml"], k) \in Ok(k)'
    BY <1>2, <2>1 DEF CuratedInv
  <2>3. "ini" \in DOMAIN files' => \A k \in Curated : Value(files'["ini"], k) \in Ok(k)'
    BY <1>2, <2>1 DEF CuratedInv
  <2>4. DOMAIN files' \cap {"yaml", "ini"} = {} => \A k \in Curated : Value(<<>>, k) \in Ok(k)'
    BY <1>2, <2>1 DEF CuratedInv
  <2> QED
    BY <1>1, <2>1, <2>2, <2>3, <2>4 DEF CuratedInv, Settled, Working
<1> QED
  BY <1>3, <1>4, <1>5, <1>6

\* No step puts anything else in a file.
LEMMA CuratedKeeps ==
    ASSUME CuratedInv, [ConfigNext]_configVars
    PROVE  CuratedInv'
<1>1. CASE UNCHANGED configVars
  BY <1>1 DEF configVars, diskVars, CuratedInv, Settled, RunInv, Ok, MayReplace
<1>2. CASE Start
  <2>1. given' = given /\ files' = files /\ schema' = schema /\ stage' = "load"
    BY <1>2 DEF Start, diskVars
  <2>2. \A m : Settled(m) => Settled(m)'
    BY <2>1 DEF Settled, Ok, MayReplace
  <2> QED
    BY <2>1, <2>2 DEF CuratedInv, Working, Settled
<1>3. CASE LoadYaml \/ LoadDefaults \/ LoadMigrated
  <2>1. PICK s : Loads(s) /\ Settled(s)
    <3>1. CASE LoadYaml
      BY <3>1 DEF LoadYaml, CuratedInv
    <3>2. CASE LoadDefaults
      BY <3>2 DEF LoadDefaults, CuratedInv
    <3>3. CASE LoadMigrated
      BY <3>3 DEF LoadMigrated, CuratedInv
    <3> QED
      BY <1>3, <3>1, <3>2, <3>3
  <2> QED
    BY <2>1, LoadsCurated
<1> QED
  BY <1>1, <1>2, <1>3, RunCurated, MigrationCurated, StepCases DEF RunStep

\* The settings are the user's before the first run.
LEMMA CuratedInit == ConfigInit => CuratedInv
<1> SUFFICES ASSUME ConfigInit PROVE CuratedInv
  OBVIOUS
<1>1. stage = "off" /\ given = [k \in Keys |-> {OnDisk(k)}]
  BY DEF ConfigInit
<1>2. \A k \in Keys : given[k] = {OnDisk(k)}
  BY <1>1
<1>3. \A k \in Curated : OnDisk(k) \in Ok(k)
  BY <1>2, KeysType DEF Ok
<1>4. given = [k \in Keys |-> given[k]]
  BY <1>1
<1>5. CASE files = <<>>
  <2>1. \A k : OnDisk(k) = Default[k] /\ Value(<<>>, k) = Default[k]
    BY <1>5 DEF OnDisk, Value
  <2>2. Default["use_following"] = FALSE
    BY KeysType
  <2>3. DOMAIN files = {}
    BY <1>5
  <2>4. given["use_following"] \subseteq BOOLEAN
    BY <1>2, <2>1, <2>2, KeysType DEF Curated
  <2>5. Settled(<<>>)
    BY <1>3, <2>1 DEF Settled
  <2> QED
    BY <1>1, <1>4, <2>3, <2>4, <2>5 DEF CuratedInv, Working
<1>6. CASE \E p \in Profiles : files \in {[yaml |-> p], [ini |-> FromIni(p)]}
  <2>1. PICK p \in Profiles : files \in {[yaml |-> p], [ini |-> FromIni(p)]}
    BY <1>6
  <2>2. CASE files = [yaml |-> p]
    <3>1. \A k : OnDisk(k) = Value(p, k)
      BY <2>2 DEF OnDisk
    <3>2. Value(p, "use_following") \in BOOLEAN
      BY ProfilesAssumption
    <3> QED
      BY <1>1, <1>2, <1>3, <1>4, <2>2, <3>1, <3>2, KeysType
      DEF CuratedInv, Settled, Working, Curated
  <2>3. CASE files = [ini |-> FromIni(p)]
    <3>1. \A k : OnDisk(k) = Value(FromIni(p), k)
      BY <2>3 DEF OnDisk
    <3>2. Value(FromIni(p), "use_following") \in BOOLEAN
      <4>1. Value(p, "use_following") \in BOOLEAN /\ Default["use_following"] \in BOOLEAN
        BY ProfilesAssumption, KeysType
      <4> QED
        BY <4>1 DEF FromIni, Value
    <3> QED
      BY <1>1, <1>2, <1>3, <1>4, <2>3, <3>1, <3>2, IniBase, KeysType
      DEF CuratedInv, Settled, Working, Curated
  <2> QED
    BY <2>1, <2>2, <2>3
<1> QED
  BY <1>5, <1>6 DEF ConfigInit

\* Whatever the flags, the filters, the service or the daemon change at runtime, whenever
\* a save comes and wherever a run or the migration dies, the next start finds the user's
\* settings as the user gave them.
THEOREM CuratedCorrect == ConfigSpec => []CuratedKept
<1>1. ConfigInit => CuratedInv
  BY CuratedInit
<1>2. CuratedInv /\ [ConfigNext]_configVars => CuratedInv'
  BY CuratedKeeps
<1>3. CuratedInv => CuratedKept
  BY CuratedMeans
<1> QED
  BY <1>1, <1>2, <1>3, PTL DEF ConfigSpec

-----------------------------------------------------------------------------
(* Whom a run acts on.                                                     *)

\* The names a user may give, at -u, at --wall-filters or in the file.
Plain == Creators \cup Ids
PlainNames ==
    /\ \A f \in FlagSets : \A x \in {"users", "wall"} :
          x \in DOMAIN f => f[x] # {} /\ f[x] \subseteq Plain
    /\ \A p \in Profiles : Value(p, "wall") \subseteq Plain

\* The filters of the file, and who is asked for.
Walls == Value(schema, "wall")
Scoped == Has("users") \/ Has("wall") \/ Walls # {}
Within(u) ==
    /\ Has("users") => u \subseteq flags["users"]
    /\ Has("wall") => u \subseteq flags["wall"]
    /\ Walls # {} /\ ~Has("wall") => u \subseteq Walls
Wanted(c) ==
    /\ Has("users") => c \in ById(flags["users"])
    /\ Has("wall")  => c \in ById(flags["wall"])
    /\ Walls # {} /\ ~Has("wall") => c \in ById(Walls)

\* Before the filters are applied, after that, and once their ids are names.
AtWalls ==
    /\ Has("wall") => /\ run.usernames = flags["wall"] /\ run.wall = flags["wall"]
                      /\ Has("users") => flags["users"] = flags["wall"]
    /\ ~Has("wall") => run.wall = Walls /\ (Has("users") => run.usernames = flags["users"])
    /\ "usernames" \in ephemeral <=> Has("users") \/ Has("wall")
AfterWalls ==
    /\ Scoped => run.usernames # {} /\ run.usernames \subseteq Plain /\ Within(run.usernames)
    /\ run.wall # {} => Scoped /\ run.wall = run.usernames
Resolved == Scoped => run.usernames # {} /\ \A c \in run.usernames \cap Creators : Wanted(c)

\* A save never changes the filters in the schema: a run that changes them has
\* marked them.  A run that does not follow the list is narrowed step by step.
ScopeInv ==
    /\ given["wall"] \subseteq SUBSET Plain
    /\ stage # "off" => flags \in FlagSets
    /\ stage \in Working => "wall" \in ephemeral \/ run.wall = Walls
    /\ stage = "walls" /\ ~run.use_following => AtWalls
    /\ stage \in Working \ {"args", "walls", "running"} /\ ~run.use_following => AfterWalls
    /\ stage = "running" /\ ~run.use_following => Resolved

\* At the end nobody else is in the scope.
LEMMA ScopeMeans == ScopeInv => ScopeHonoured
<1> SUFFICES ASSUME ScopeInv, stage = "running", ~run.use_following,
                    NEW c \in Creators, InScope(c)
             PROVE  Wanted(c)
  BY DEF ScopeHonoured, Wanted, Walls
<1>1. CASE Scoped
  <2>1. run.usernames # {} /\ \A d \in run.usernames \cap Creators : Wanted(d)
    BY <1>1 DEF ScopeInv, Resolved
  <2>2. c \in run.usernames
    BY <2>1 DEF InScope
  <2> QED
    BY <2>1, <2>2
<1>2. CASE ~Scoped
  BY <1>2 DEF Scoped, Wanted
<1> QED
  BY <1>1, <1>2

\* A name that was asked for, by itself or by its id.
LEMMA WithinWanted ==
    ASSUME ConfigAssumption, NEW u, Within(u), NEW c \in Creators, c \in ById(u)
    PROVE  Wanted(c)
<1>1. ASSUME NEW v, u \subseteq v PROVE c \in ById(v)
  <2>1. PICK n \in u : c = IF n \in Ids THEN NameOf[n] ELSE n
    BY DEF ById
  <2> QED
    BY <1>1, <2>1 DEF ById
<1> QED
  BY <1>1 DEF Within, Wanted

\* The filters in the schema stay, if a changed value is marked.
LEMMA WallsKept ==
    ASSUME NEW r, NEW e, Does(r, e), "wall" \in e \/ r["wall"] = Walls
    PROVE  Walls' = Walls /\ run' = r /\ ephemeral' = e /\ flags' = flags
<1>1. run' = r /\ ephemeral' = e /\ flags' = flags
  BY DEF Does, Saves, Assigns
<1>2. CASE Assigns(r, e)
  BY <1>1, <1>2 DEF Assigns, diskVars, Walls
<1>3. CASE Saves(r, e)
  <2>1. Saved(schema, r, e)
    BY <1>3 DEF Saves
  <2>2. "wall" \in Keys \ {"scan_settle_s"}
    BY KeysType DEF Curated
  <2>3. "wall" \in Changed(schema, r, e) => r["wall"] = Walls
    BY DEF Changed
  <2>4. Value(schema', "wall") = IF "wall" \in Changed(schema, r, e)
                                 THEN r["wall"] ELSE Value(schema, "wall")
    BY <2>1, <2>2, SavedValue
  <2>5. Value(schema', "wall") = Walls
    BY <2>3, <2>4 DEF Walls
  <2> QED
    BY <1>1, <2>5 DEF Walls
<1> QED
  BY <1>2, <1>3 DEF Does

\* A step that leaves the scope as it is.
Calm(r) ==
    /\ Does(r, ephemeral) /\ given'["wall"] = given["wall"]
    /\ r["wall"] = run["wall"] /\ r["use_following"] = run["use_following"]
    /\ \/ r["usernames"] = run["usernames"]
       \/ run["use_following"]
       \/ ~Scoped /\ run["wall"] = {}
    /\ stage \notin {"args", "walls"} /\ stage' # "walls"
    /\ stage' = "running" <=> stage = "running"

\* It keeps it.
LEMMA CalmScope ==
    ASSUME ScopeInv, NEW r, Calm(r)
    PROVE  ScopeInv'
<1>1. /\ stage \in Working \ {"args", "walls"} /\ stage' \in Working \ {"args", "walls"}
      /\ stage # "off" /\ stage' # "off"
  BY DEF Calm, Does, Working
<1>2. "wall" \in ephemeral \/ r["wall"] = Walls
  BY <1>1 DEF ScopeInv, Calm
<1>3. Walls' = Walls /\ run' = r /\ ephemeral' = ephemeral /\ flags' = flags
  BY <1>2, WallsKept DEF Calm
<1>4. /\ given'["wall"] \subseteq SUBSET Plain /\ flags' \in FlagSets
      /\ "wall" \in ephemeral' \/ run'.wall = Walls'
  BY <1>1, <1>2, <1>3 DEF ScopeInv, Calm
<1>5. (Scoped' <=> Scoped) /\ \A u : Within(u)' <=> Within(u)
  BY <1>3 DEF Scoped, Within, Has
<1>6. \A c : Wanted(c)' <=> Wanted(c)
  BY <1>3 DEF Wanted, Has
<1>7. ASSUME ~run'.use_following, stage' # "running" PROVE AfterWalls'
  <2>1. AfterWalls /\ ~run["use_following"]
    BY <1>1, <1>3, <1>7 DEF ScopeInv, Calm
  <2>2. CASE r["usernames"] = run["usernames"]
    BY <1>3, <1>5, <2>1, <2>2 DEF AfterWalls, Calm
  <2>3. CASE ~Scoped /\ run["wall"] = {}
    BY <1>3, <1>5, <2>3 DEF AfterWalls, Calm
  <2> QED
    BY <2>1, <2>2, <2>3 DEF Calm
<1>8. ASSUME ~run'.use_following, stage' = "running" PROVE Resolved'
  <2>1. Resolved /\ ~run["use_following"]
    BY <1>1, <1>3, <1>8 DEF ScopeInv, Calm
  <2>2. CASE r["usernames"] = run["usernames"]
    BY <1>3, <1>5, <1>6, <2>1, <2>2 DEF Resolved, Calm
  <2>3. CASE ~Scoped /\ run["wall"] = {}
    BY <1>3, <1>5, <2>3 DEF Resolved, Calm
  <2> QED
    BY <2>1, <2>2, <2>3 DEF Calm
<1> QED
  BY <1>1, <1>4, <1>7, <1>8 DEF ScopeInv

\* Which steps are such steps.
LEMMA CalmSteps ==
    ASSUME ScopeInv, CuratedInv,
           PlainStep \/ ValidateNames \/ ValidateDirectory \/ ValidateMode
           \/ ListFollowing \/ RefreshFollowing
    PROVE  \E r : Calm(r)
<1>1. {"wall", "use_following", "usernames"} \subseteq Curated /\ Curated \subseteq Keys
  BY KeysType DEF Curated
<1>2. given = [k \in Keys |-> given[k]]
  BY DEF CuratedInv
<1>3. CASE PlainStep
  <2>1. RunInv
    BY <1>3 DEF CuratedInv, PlainStep, ValidateToken, ValidateKey, UpdateDeviceId, SetupSession,
                NamesStand, SavedInRun, Working
  <2>2. PICK r : Plainly(r)
    BY <1>3, <2>1, PlainSteps
  <2>3. Calm(r)
    BY <1>1, <2>2 DEF Plainly, Calm
  <2> QED
    BY <2>3
<1>4. ASSUME NEW r, NEW x \in {"directory", "download_mode"}, Answers(r, x) PROVE Calm(r)
  <2>1. given'["wall"] = given["wall"]
    <3>1. CASE given' = given
      BY <3>1
    <3>2. CASE given' = [given EXCEPT ![x] = @ \cup {r[x]}]
      BY <1>1, <1>2, <3>2, OneKey
    <3> QED
      BY <1>4, <3>1, <3>2 DEF Answers
  <2> QED
    BY <1>1, <1>4, <2>1 DEF Answers, Calm
<1>5. CASE ValidateDirectory \/ ValidateMode
  BY <1>4, <1>5, DirectoryAnswers, ModeAnswers
<1>6. CASE ValidateNames
  <2>1. RunInv /\ stage = "names" /\ stage \in Working
    BY <1>6 DEF CuratedInv, ValidateNames, Working
  <2>2. PICK r : Named(r)
    BY <1>6, <2>1, NamesNamed
  <2>3. given'["wall"] = given["wall"]
    <3>1. CASE given' = given
      BY <3>1
    <3>2. CASE given' = [given EXCEPT !.usernames = @ \cup {r.usernames}]
      BY <1>1, <1>2, <3>2, OneKey
    <3> QED
      BY <2>2, <3>1, <3>2 DEF Named
  <2>4. r = run \/ run["use_following"] \/ (~Scoped /\ run["wall"] = {})
    <3> SUFFICES ASSUME Placeholder \in run["usernames"], ~run["use_following"]
                 PROVE  ~Scoped /\ run["wall"] = {}
      BY <2>2 DEF Named
    <3>1. AfterWalls
      BY <2>1 DEF ScopeInv, Working
    <3>2. Placeholder \notin Plain
      BY ConfigAssumption DEF Plain
    <3> QED
      BY <3>1, <3>2 DEF AfterWalls
  <2>5. Calm(r)
    BY <1>1, <2>1, <2>2, <2>3, <2>4 DEF Named, Calm
  <2> QED
    BY <2>5
<1>7. CASE ListFollowing \/ RefreshFollowing
  <2> DEFINE r == [run EXCEPT !.usernames = Followed]
  <2>1. /\ Does(r, ephemeral) /\ stage \notin {"args", "walls"} /\ stage' # "walls"
        /\ stage' = "running" <=> stage = "running"
        /\ given' = given /\ stage \in Working
    BY <1>7 DEF ListFollowing, RefreshFollowing, Does, Working, GoesTo
  <2>2. RunInv
    BY <2>1 DEF CuratedInv
  <2>3. \A k \in Keys : k # "usernames" => r[k] = run[k]
    BY <2>2, OneKey DEF RunInv
  <2>4. run["use_following"] \/ (~Scoped /\ run["wall"] = {})
    <3> SUFFICES ASSUME ~run["use_following"] PROVE ~Scoped /\ run["wall"] = {}
      OBVIOUS
    <3>1. stage = "scope" /\ run["usernames"] = {}
      BY <1>7 DEF ListFollowing, RefreshFollowing
    <3>2. AfterWalls
      BY <2>1, <3>1 DEF ScopeInv
    <3> QED
      BY <3>1, <3>2 DEF AfterWalls
  <2> HIDE DEF r
  <2>5. Calm(r)
    BY <1>1, <2>1, <2>3, <2>4 DEF Calm
  <2> QED
    BY <2>5
<1> QED
  BY <1>3, <1>5, <1>6, <1>7

\* The flags take the names and the filters over, and no two of them may differ.
LEMMA ArgsScope ==
    ASSUME ScopeInv, CuratedInv, MapArgs
    PROVE  ScopeInv'
<1>1. /\ stage = "args" /\ stage' = "walls" /\ stage \in Working /\ ephemeral = {} /\ RunInv
      /\ given' = given /\ ~Conflict /\ run["wall"] = Walls
  BY DEF MapArgs, GoesTo, Working, CuratedInv, RunInv, ScopeInv
<1> DEFINE quit == [Mapped EXCEPT !.daemon_mode = FALSE]
           Fine(r) == \A k \in Curated \ {"daemon_mode"} : r[k] = Mapped[k]
<1>2. Fine(Mapped) /\ Fine(quit)
  BY <1>1, MappedValue, OneKey, KeysType
<1>3. PICK r \in {Mapped, quit}, e \in {Marked, Marked \cup {"daemon_mode"}} : Does(r, e)
  BY DEF MapArgs, Mapped, Does, Working, GoesTo
<1>4. Fine(r)
  BY <1>2
<1> HIDE DEF quit
<1>5. /\ "usernames" \in e <=> Has("users") \/ Has("wall") \/ Has("following")
      /\ "wall" \in e <=> Has("wall")
  BY DEF Marked
<1>6. /\ r["wall"] = IF Has("wall") THEN flags["wall"] ELSE run["wall"]
      /\ r["usernames"] = IF Has("wall") THEN flags["wall"]
                          ELSE IF Has("users") THEN flags["users"] ELSE run["usernames"]
      /\ r["use_following"] = IF Has("following") THEN TRUE ELSE run["use_following"]
  BY <1>1, <1>4, MappedValue DEF Curated
<1>7. Walls' = Walls /\ run' = r /\ ephemeral' = e /\ flags' = flags
  BY <1>1, <1>3, <1>5, <1>6, WallsKept
<1>8. Has("wall") /\ Has("users") => flags["users"] = flags["wall"]
  BY <1>1 DEF Conflict
<1>9. ASSUME ~run'.use_following PROVE AtWalls'
  <2>1. ~Has("following")
    BY <1>6, <1>7, <1>9
  <2>2. /\ Has("wall") => r["usernames"] = flags["wall"] /\ r["wall"] = flags["wall"]
        /\ ~Has("wall") => r["wall"] = Walls
        /\ ~Has("wall") /\ Has("users") => r["usernames"] = flags["users"]
        /\ "usernames" \in e <=> Has("users") \/ Has("wall")
    BY <1>1, <1>5, <1>6, <2>1
  <2> QED
    BY <1>7, <1>8, <2>2 DEF AtWalls, Has
<1>10. "wall" \in ephemeral' \/ run'.wall = Walls'
  BY <1>1, <1>5, <1>6, <1>7
<1>11. given'["wall"] \subseteq SUBSET Plain /\ flags' \in FlagSets
  BY <1>1, <1>7 DEF ScopeInv
<1> QED
  BY <1>1, <1>9, <1>10, <1>11 DEF ScopeInv

\* The filters narrow the scope, or are narrowed by the names.
LEMMA WallsScope ==
    ASSUME PlainNames, ScopeInv, CuratedInv, ValidateWalls
    PROVE  ScopeInv'
<1>1. /\ stage = "walls" /\ stage' = "names" /\ stage \in Working /\ RunInv /\ ~WallConflict
      /\ given' = given /\ "wall" \in Keys /\ "usernames" \in Keys /\ "use_following" \in Keys
  BY KeysType DEF ValidateWalls, GoesTo, Working, CuratedInv, Curated
<1> DEFINE narrow == [run EXCEPT !.wall = @ \cap run.usernames]
           scope == [run EXCEPT !.usernames = run.wall]
<1>2. /\ narrow["wall"] = run["wall"] \cap run["usernames"]
      /\ narrow["usernames"] = run["usernames"] /\ narrow["use_following"] = run["use_following"]
      /\ scope["usernames"] = run["wall"] /\ scope["wall"] = run["wall"]
      /\ scope["use_following"] = run["use_following"]
  <2>1. /\ narrow["wall"] = run["wall"] \cap run["usernames"]
        /\ \A k \in Keys : k # "wall" => narrow[k] = run[k]
    BY <1>1, OneKey DEF RunInv
  <2>2. /\ scope["usernames"] = run["wall"]
        /\ \A k \in Keys : k # "usernames" => scope[k] = run[k]
    BY <1>1, OneKey DEF RunInv
  <2> HIDE DEF narrow, scope
  <2> QED
    BY <1>1, <2>1, <2>2
<1>3. \/ run.wall = {} /\ Does(run, ephemeral)
      \/ run.wall # {} /\ Narrowed /\ Does(narrow, ephemeral \cup {"wall"})
      \/ run.wall # {} /\ ~Narrowed /\ Does(scope, ephemeral \cup {"usernames"})
  BY DEF ValidateWalls, FilterScope, Does, Working, GoesTo, Same
<1> HIDE DEF narrow, scope
<1>4. PICK r, e :
         /\ Does(r, e)
         /\ "wall" \in e \/ r["wall"] = Walls
         /\ r["use_following"] = run["use_following"]
         /\ \/ run.wall = {} /\ r = run
            \/ /\ run.wall # {} /\ Narrowed
               /\ r["wall"] = run["wall"] \cap run["usernames"]
               /\ r["usernames"] = run["usernames"]
            \/ /\ run.wall # {} /\ ~Narrowed
               /\ r["wall"] = run["wall"] /\ r["usernames"] = run["wall"]
  <2>1. "wall" \in ephemeral \/ run["wall"] = Walls
    BY <1>1 DEF ScopeInv
  <2>2. CASE run.wall = {} /\ Does(run, ephemeral)
    BY <2>1, <2>2
  <2>3. CASE run.wall # {} /\ Narrowed /\ Does(narrow, ephemeral \cup {"wall"})
    <3>1. "wall" \in ephemeral \cup {"wall"}
      OBVIOUS
    <3> QED
      BY <1>2, <2>3, <3>1
  <2>4. CASE run.wall # {} /\ ~Narrowed /\ Does(scope, ephemeral \cup {"usernames"})
    <3>1. "wall" \in ephemeral \cup {"usernames"} \/ scope["wall"] = Walls
      BY <1>2, <2>1
    <3> QED
      BY <1>2, <2>4, <3>1
  <2> QED
    BY <1>3, <2>2, <2>3, <2>4
<1>5. Walls' = Walls /\ run' = r /\ ephemeral' = e /\ flags' = flags
  BY <1>4, WallsKept
<1>6. (Scoped' <=> Scoped) /\ \A u : Within(u)' <=> Within(u)
  BY <1>5 DEF Scoped, Within, Has
<1>7. /\ given'["wall"] \subseteq SUBSET Plain /\ flags' \in FlagSets
      /\ "wall" \in ephemeral' \/ run'.wall = Walls'
  BY <1>1, <1>4, <1>5 DEF ScopeInv
<1>8. Walls \subseteq Plain
  <2>1. Walls \in Ok("wall")
    BY <1>1 DEF CuratedInv, Settled, Walls, Curated
  <2>2. Walls \in given["wall"]
    BY <2>1 DEF Ok, MayReplace
  <2> QED
    BY <2>2 DEF ScopeInv
<1>9. \A x \in {"users", "wall"} : Has(x) => flags[x] # {} /\ flags[x] \subseteq Plain
  BY <1>1 DEF ScopeInv, PlainNames, Has
<1>10. ASSUME ~run'.use_following PROVE AfterWalls'
  <2>1. AtWalls
    BY <1>1, <1>4, <1>5, <1>10 DEF ScopeInv
  <2>2. Narrowed /\ run.wall # {} => run["usernames"] \subseteq run["wall"]
    BY <1>1 DEF WallConflict
  <2>3. Scoped => r["usernames"] # {} /\ r["usernames"] \subseteq Plain /\ Within(r["usernames"])
    <3>1. CASE Has("wall")
      <4>1. run["usernames"] = flags["wall"] /\ run["wall"] = flags["wall"]
            /\ flags["wall"] # {} /\ flags["wall"] \subseteq Plain
            /\ (Has("users") => flags["users"] = flags["wall"])
        BY <1>9, <2>1, <3>1 DEF AtWalls
      <4>2. r["usernames"] = flags["wall"]
        BY <1>4, <4>1
      <4> QED
        BY <3>1, <4>1, <4>2 DEF Within
    <3>2. CASE ~Has("wall") /\ Has("users")
      <4>1. run["usernames"] = flags["users"] /\ run["wall"] = Walls
            /\ flags["users"] # {} /\ flags["users"] \subseteq Plain /\ Narrowed
        BY <1>9, <2>1, <3>2 DEF AtWalls, Narrowed
      <4>2. r["usernames"] = flags["users"]
        BY <1>4, <4>1
      <4>3. Walls # {} => flags["users"] \subseteq Walls
        BY <2>2, <4>1
      <4> QED
        BY <3>2, <4>1, <4>2, <4>3 DEF Within
    <3>3. CASE ~Has("wall") /\ ~Has("users") /\ Walls # {}
      <4>1. run["wall"] = Walls /\ ~Narrowed
        BY <2>1, <3>3 DEF AtWalls, Narrowed
      <4>2. r["usernames"] = Walls
        BY <1>4, <3>3, <4>1
      <4> QED
        BY <1>8, <3>3, <4>2 DEF Within
    <3> QED
      BY <3>1, <3>2, <3>3 DEF Scoped
  <2>4. r["wall"] # {} => Scoped /\ r["wall"] = r["usernames"]
    <3>1. run["wall"] # {} => Scoped
      BY <2>1 DEF AtWalls, Scoped
    <3> QED
      BY <1>4, <2>2, <3>1
  <2> QED
    BY <1>5, <1>6, <2>3, <2>4 DEF AfterWalls
<1> QED
  BY <1>1, <1>7, <1>10 DEF ScopeInv

\* An id becomes the name of its creator, in the filters and in the scope.
LEMMA IdsScope ==
    ASSUME IdsKnown, ScopeInv, CuratedInv, ResolveIds
    PROVE  ScopeInv'
<1>1. /\ stage = "ids" /\ stage' = "running" /\ stage \in Working /\ RunInv
      /\ given' = given /\ "wall" \in Keys /\ "usernames" \in Keys /\ "use_following" \in Keys
  BY KeysType DEF ResolveIds, GoesTo, Working, CuratedInv, Curated
<1> DEFINE ids == run.wall \cap Ids
           new == {NameOf[i] : i \in ids} \ run.wall
           To(names) == (names \ ids) \cup new
           scope == IF run.usernames = {} THEN {} ELSE To(run.usernames)
           q == [run EXCEPT !.wall = To(@)]
           resolved == [q EXCEPT !.usernames = scope]
<1>2. \/ ids = {} /\ Does(run, ephemeral)
      \/ ids # {} /\ Does(resolved, ephemeral \cup {"wall"})
  <2>1. PICK known \in {ids} :
           LET fresh == {NameOf[i] : i \in known} \ run.wall
               Turn(names) == (names \ ids) \cup fresh
               names2 == IF run.usernames = {} THEN {} ELSE Turn(run.usernames) IN
           IF ids = {} THEN Assigns(Same, ephemeral)
           ELSE Assigns([run EXCEPT !.wall = Turn(@), !.usernames = names2],
                        ephemeral \cup {"wall"})
    BY DEF ResolveIds
  <2>2. \/ ids = {} /\ Assigns(run, ephemeral)
        \/ ids # {} /\ Assigns(resolved, ephemeral \cup {"wall"})
    BY <2>1 DEF Same
  <2>3. stage' \in Working \ {"args"} /\ UNCHANGED <<flags, driven>>
    BY <1>1 DEF Working, ResolveIds, GoesTo
  <2> QED
    BY <1>1, <2>2, <2>3 DEF Does
<1>3. /\ resolved["wall"] = To(run["wall"]) /\ resolved["usernames"] = scope
      /\ resolved["use_following"] = run["use_following"]
  <2>1. /\ q = [k \in Keys |-> q[k]] /\ q["wall"] = To(run["wall"])
        /\ \A k \in Keys : k # "wall" => q[k] = run[k]
    BY <1>1, OneKey DEF RunInv
  <2> HIDE DEF q, scope
  <2>2. resolved["usernames"] = scope /\ \A k \in Keys : k # "usernames" => resolved[k] = q[k]
    BY <1>1, <2>1, OneKey
  <2> HIDE DEF resolved
  <2> QED
    BY <1>1, <2>1, <2>2
<1> HIDE DEF resolved
<1>4. PICK r, e :
         /\ Does(r, e)
         /\ "wall" \in e \/ r["wall"] = Walls
         /\ r["use_following"] = run["use_following"]
         /\ \/ ids = {} /\ r["usernames"] = run["usernames"]
            \/ ids # {} /\ r["usernames"] = scope
  <2>1. "wall" \in ephemeral \/ run["wall"] = Walls
    BY <1>1 DEF ScopeInv
  <2>2. CASE ids = {} /\ Does(run, ephemeral)
    BY <2>1, <2>2
  <2>3. CASE ids # {} /\ Does(resolved, ephemeral \cup {"wall"})
    <3>1. "wall" \in ephemeral \cup {"wall"}
      OBVIOUS
    <3> QED
      BY <1>3, <2>3, <3>1
  <2> QED
    BY <1>2, <2>2, <2>3
<1>5. Walls' = Walls /\ run' = r /\ ephemeral' = e /\ flags' = flags
  BY <1>4, WallsKept
<1>6. (Scoped' <=> Scoped) /\ \A c : Wanted(c)' <=> Wanted(c)
  BY <1>5 DEF Scoped, Wanted, Has
<1>7. /\ given'["wall"] \subseteq SUBSET Plain /\ flags' \in FlagSets
      /\ "wall" \in ephemeral' \/ run'.wall = Walls'
  BY <1>1, <1>4, <1>5 DEF ScopeInv
<1>8. ASSUME ~run'.use_following PROVE Resolved'
  <2>1. AfterWalls
    BY <1>1, <1>4, <1>5, <1>8 DEF ScopeInv, Working
  <2>2. SUFFICES ASSUME Scoped
                 PROVE  r["usernames"] # {} /\ \A c \in r["usernames"] \cap Creators : Wanted(c)
    BY <1>5, <1>6 DEF Resolved
  <2>3. /\ run["usernames"] # {} /\ run["usernames"] \subseteq Plain /\ Within(run["usernames"])
        /\ run["wall"] # {} => run["wall"] = run["usernames"]
    BY <2>1, <2>2 DEF AfterWalls
  <2>4. /\ \A n \in Creators : n \notin Ids
        /\ \A n \in Ids : NameOf[n] \in Creators
    BY ConfigAssumption
  <2>5. r["usernames"] # {} /\ \A c \in r["usernames"] \cap Creators : c \in ById(run["usernames"])
    <3>1. CASE r["usernames"] = run["usernames"]
      BY <2>3, <2>4, <3>1 DEF ById
    <3>2. CASE ids # {} /\ r["usernames"] = scope
      <4>1. run["wall"] = run["usernames"] /\ r["usernames"] = To(run["usernames"])
        BY <2>3, <3>2
      <4>2. ASSUME NEW c \in r["usernames"] \cap Creators PROVE c \in ById(run["usernames"])
        <5>1. CASE c \in run["usernames"]
          BY <2>4, <5>1 DEF ById
        <5>2. CASE c \in new
          <6>1. PICK i \in ids : c = NameOf[i]
            BY <5>2
          <6> QED
            BY <4>1, <6>1 DEF ById
        <5> QED
          BY <4>1, <4>2, <5>1, <5>2
      <4>3. r["usernames"] # {}
        <5>1. PICK i \in ids : TRUE
          BY <3>2
        <5>2. NameOf[i] \in Creators /\ NameOf[i] \notin ids
          BY <2>4, <5>1
        <5>3. CASE NameOf[i] \in run["wall"]
          BY <4>1, <5>2, <5>3
        <5>4. CASE NameOf[i] \notin run["wall"]
          BY <4>1, <5>1, <5>4
        <5> QED
          BY <5>3, <5>4
      <4> QED
        BY <4>2, <4>3
    <3> QED
      BY <1>4, <3>1, <3>2
  <2> QED
    BY <2>3, <2>5, WithinWanted, ConfigAssumption
<1> QED
  BY <1>1, <1>7, <1>8 DEF ScopeInv

\* A load starts with the filters of the file.
LEMMA LoadsScope ==
    ASSUME ScopeInv, NEW s, Loads(s), stage # "off"
    PROVE  ScopeInv'
<1>1. /\ Saved(Taken(s), Populated(s), {}) /\ run' = Populated(s) /\ stage' = "args"
      /\ given' = given /\ flags' = flags
  BY DEF Loads
<1>2. "wall" \in Keys \ {"scan_settle_s", "session_baseline"} /\ "wall" \in Curated
  BY KeysType DEF Curated
<1>3. Populated(s)["wall"] = Value(s, "wall") /\ Value(Taken(s), "wall") = Value(s, "wall")
  BY <1>2, PopulatedValue, TakenValue
<1>4. Value(schema', "wall") = IF "wall" \in Changed(Taken(s), Populated(s), {})
                               THEN Populated(s)["wall"] ELSE Value(Taken(s), "wall")
  BY <1>1, <1>2, SavedValue
<1>5. run'["wall"] = Walls'
  BY <1>1, <1>3, <1>4 DEF Walls
<1> QED
  BY <1>1, <1>5 DEF ScopeInv

\* No step widens the scope.
LEMMA ScopeKeeps ==
    ASSUME IdsKnown, PlainNames, CuratedInv, ScopeInv, [ConfigNext]_configVars
    PROVE  ScopeInv'
<1>1. CASE UNCHANGED configVars
  BY <1>1 DEF configVars, diskVars, ScopeInv, AtWalls, AfterWalls, Resolved, Scoped, Within,
              Wanted, Walls, Has
<1>2. CASE Start
  BY <1>2 DEF Start, ScopeInv, Working
<1>3. CASE LoadYaml \/ LoadDefaults \/ LoadMigrated
  BY <1>3, LoadsScope DEF LoadYaml, LoadDefaults, LoadMigrated
<1>4. CASE MigrateWrites \/ MigrateDiverges \/ MigrateRenames \/ Refused
  BY <1>4 DEF MigrateWrites, MigrateDiverges, MigrateRenames, Refused, Gone, GoesTo, ScopeInv,
              Working
<1>5. CASE RunStep
  BY <1>5, CalmSteps, CalmScope, ArgsScope, WallsScope, IdsScope DEF RunStep, PlainStep
<1> QED
  BY <1>1, <1>2, <1>3, <1>4, <1>5, StepCases DEF RunStep

\* If the service knows every id and the names the user gives are creators or ids, a run
\* that does not follow the list acts on nobody the user did not ask for.
THEOREM ScopeCorrect ==
    ASSUME IdsKnown, PlainNames
    PROVE  ConfigSpec => []ScopeHonoured
<1>1. ConfigInit => CuratedInv /\ ScopeInv
  <2> SUFFICES ASSUME ConfigInit PROVE ScopeInv
    BY CuratedInit
  <2>1. stage = "off" /\ given = [k \in Keys |-> {OnDisk(k)}]
    BY DEF ConfigInit
  <2>2. given["wall"] = {OnDisk("wall")}
    BY <2>1, KeysType DEF Curated
  <2>3. OnDisk("wall") \in SUBSET Plain
    <3>1. Default["wall"] = {} /\ "wall" \notin IniKeys
      BY KeysType DEF IniKeys
    <3>2. CASE files = <<>>
      BY <3>1, <3>2 DEF OnDisk
    <3>3. CASE \E p \in Profiles : files \in {[yaml |-> p], [ini |-> FromIni(p)]}
      <4>1. PICK p \in Profiles : files \in {[yaml |-> p], [ini |-> FromIni(p)]}
        BY <3>3
      <4>2. CASE files = [yaml |-> p]
        BY <4>2 DEF OnDisk, PlainNames
      <4>3. CASE files = [ini |-> FromIni(p)]
        <5>1. OnDisk("wall") = Value(FromIni(p), "wall")
          BY <4>3 DEF OnDisk
        <5>2. Value(FromIni(p), "wall") = Default["wall"]
          BY <3>1 DEF FromIni, Value
        <5> QED
          BY <3>1, <5>1, <5>2
      <4> QED
        BY <4>1, <4>2, <4>3
    <3> QED
      BY <3>2, <3>3 DEF ConfigInit
  <2> QED
    BY <2>1, <2>2, <2>3 DEF ScopeInv, Working
<1>2. CuratedInv /\ ScopeInv /\ [ConfigNext]_configVars => CuratedInv' /\ ScopeInv'
  BY CuratedKeeps, ScopeKeeps
<1>3. ScopeInv => ScopeHonoured
  BY ScopeMeans
<1> QED
  BY <1>1, <1>2, <1>3, PTL DEF ConfigSpec

=============================================================================
