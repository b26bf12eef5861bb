------------------------------ MODULE Settings -------------------------------
(* How a command settles its options (cli/root.go PersistentPreRunE and        *)
(* cli/playwright_config.go): flags, then a Playwright config file, then the   *)
(* PLAYWRIGHT_* environment, one over the other, with a list of what was given *)
(* and could not be honoured.  A value is "ok" when the parser of its key      *)
(* accepts it and "bad" when it refuses it; a setting is the source it is from.*)
EXTENDS Sequences

CONSTANTS Together,   \* the sets of keys that may be given at once
          FileStates  \* what reading the config file may give

AllFileStates == {"ok", "unreadable", "malformed"}

(* The keys of each source.                                                    *)
FlagKeys == {"session", "headless", "connect", "userDataDir", "timeout", "proxy",
             "proxyBypass", "outputMaxSize", "consoleLevel"}
EnvKeys == FlagKeys \cup
  {"isolated", "executablePath", "device", "storageState", "viewport", "userAgent", "ignoreHTTPS",
   "initScript", "outputDir", "browserName", "permissions", "serviceWorkers", "saveVideo"}
FileKeys == (FlagKeys \ {"session"}) \cup
  {"isolated", "executablePath", "storageState", "viewport", "userAgent", "locale", "initScript",
   "outputDir", "browserName", "permissions", "serviceWorkers", "saveVideo", "channel",
   "cdpHeaders", "cdpTimeout", "launchArgs", "remoteEndpoint", "initPage", "topLevel"}
AllKeys == FlagKeys \cup EnvKeys \cup FileKeys

(* The keys of which a value can be refused.                                   *)
EnvParsed == {"headless", "isolated", "device", "viewport", "timeout", "ignoreHTTPS",
              "outputMaxSize", "consoleLevel", "browserName", "permissions", "serviceWorkers", "saveVideo"}
FileParsed == {"outputMaxSize", "consoleLevel", "timeout", "browserName", "isolated", "cdpHeaders",
               "cdpTimeout", "remoteEndpoint", "initPage", "initScript", "channel", "launchArgs",
               "viewport", "permissions", "serviceWorkers", "saveVideo", "topLevel"}
(* Keys with nothing to set: a value is honoured as it is or refused.          *)
Tested == {"isolated", "browserName", "channel", "remoteEndpoint", "initPage", "topLevel"}
(* Keys whose values of the two sources are kept together.                     *)
Lists == {"permissions", "initScript", "launchArgs"}
Scalars == AllKeys \ (Tested \cup Lists)

SettingsAssumption ==
  /\ \A K \in Together : K \subseteq AllKeys
  /\ FileStates \subseteq AllFileStates

VARIABLES
  given,    \* [flags, env, file, where, disk, legacy]: what the user gave
  at,       \* the next step, or how it ended
  setting,  \* each scalar: the source of its value
  lists,    \* each list: the sources of its values, in order
  told,     \* <<source, key>> of what was refused and is reported
  loaded    \* the config file has been read

vars == <<given, at, setting, lists, told, loaded>>

Verdicts(k, keys, parsed) ==
  IF k \notin keys THEN {"none"} ELSE {"none", "ok"} \cup (IF k \in parsed THEN {"bad"} ELSE {})
(* The remote endpoint, the init page and the other top-level fields are never honoured. *)
FileVerdicts(k) == Verdicts(k, FileKeys, FileParsed) \
                     (IF k \in {"remoteEndpoint", "initPage", "topLevel"} THEN {"ok"} ELSE {})

(* Only one key, or a few, are given: the others are "none".                   *)
Filled(f) == [k \in AllKeys |-> IF k \in DOMAIN f THEN f[k] ELSE "none"]
Offers(K, verdicts(_)) == {Filled(f) : f \in {g \in [K -> {"none", "ok", "bad"}] : \A k \in K : g[k] \in verdicts(k)}}
EnvVerdicts(k) == Verdicts(k, EnvKeys, EnvParsed)
Nothing == Filled(<< >>)

Init ==
  /\ \E K \in Together :
       \E flags \in SUBSET (K \cap FlagKeys), env \in Offers(K, EnvVerdicts) :
       \E where \in {"none", "auto", "flag", "env"}, disk \in FileStates, legacy \in BOOLEAN :
       \E file \in IF where # "none" /\ disk = "ok" THEN Offers(K, FileVerdicts) ELSE {Nothing} :
         /\ (where = "none" => disk = "ok")
         /\ given = [flags |-> flags, env |-> env, file |-> file, where |-> where, disk |-> disk, legacy |-> legacy]
         /\ setting = [k \in Scalars |-> IF k \in flags THEN "flag" ELSE "default"]
  /\ at = "proxy"
  /\ lists = [k \in Lists |-> << >>]
  /\ told = {}
  /\ loaded = FALSE

Then(step) == at' = step /\ UNCHANGED given

(* GHOSTCHROME_PROXY fills the flag when the user gave none.                   *)
LegacyProxy ==
  /\ at = "proxy"
  /\ Then("path")
  /\ setting' = IF given.legacy /\ setting["proxy"] = "default"
                  THEN [setting EXCEPT !["proxy"] = "legacy"] ELSE setting
  /\ UNCHANGED <<lists, told, loaded>>

(* The file of --config, of PLAYWRIGHT_MCP_CONFIG, or the one found in the     *)
(* working directory, which is not explicit.                                   *)
Explicit == given.where \in {"flag", "env"}
Unreadable == IF Explicit THEN "failed" ELSE "done"

ReadFile ==
  /\ at = "path"
  /\ CASE given.where = "none" -> Then("video") /\ loaded' = FALSE
       [] given.where # "none" /\ given.disk = "unreadable" -> Then(Unreadable) /\ loaded' = FALSE
       [] given.where # "none" /\ given.disk = "malformed" -> Then("failed") /\ loaded' = FALSE
       [] OTHER -> Then("video") /\ loaded' = TRUE
  /\ UNCHANGED <<setting, lists, told>>

Refused(source, values) == {<<source, k>> : k \in {x \in AllKeys : values[x] = "bad"}}
Overridable(k) == k \notin given.flags

(* applyAutoVideoConfig: the environment is looked at first and a size of the  *)
(* file only fills the gap.                                                    *)
VideoSource ==
  CASE given.env["saveVideo"] = "ok" -> "env"
    [] given.env["saveVideo"] # "ok" /\ given.file["saveVideo"] = "ok" -> "config"
    [] OTHER -> "default"

AutoVideo ==
  /\ at = "video"
  /\ setting' = [setting EXCEPT !["saveVideo"] = VideoSource]
  /\ told' = told \cup ((Refused("env", given.env) \cup Refused("config", given.file))
                          \cap {<<"env", "saveVideo">>, <<"config", "saveVideo">>})
  /\ Then(IF loaded THEN "file" ELSE "env")
  /\ UNCHANGED <<lists, loaded>>

(* A value of a source that has the key, unless its flag was given.            *)
Applies(values, k) == values[k] = "ok" /\ Overridable(k)
Set(source, values, keys) ==
  [k \in Scalars |-> IF k \in keys /\ Applies(values, k) THEN source ELSE setting[k]]
Extended(source, values, keys) ==
  [k \in Lists |-> IF k \in keys /\ values[k] = "ok" THEN Append(lists[k], source) ELSE lists[k]]

(* applyConfigValues.  A flag hides a bad level, not a negative size; a        *)
(* navigation timeout that is not positive is passed over.                     *)
FileTold == {<<"config", k>> : k \in {x \in FileParsed \ {"saveVideo", "timeout"} :
                              given.file[x] = "bad" /\ (x = "consoleLevel" => Overridable(x))}}
FileValues ==
  /\ at = "file"
  /\ setting' = Set("config", given.file, FileKeys \ {"saveVideo"})
  /\ lists' = Extended("config", given.file, Lists)
  /\ told' = told \cup FileTold
  /\ Then("env")
  /\ UNCHANGED loaded

(* applyPlaywrightEnvConfig.  The session is taken only while there is none.   *)
LateEnv == {"permissions", "serviceWorkers", "saveVideo"}
EnvSettings == Set("env", given.env, EnvKeys \ LateEnv)
EnvTold == {<<"env", k>> : k \in {x \in EnvParsed \ LateEnv : given.env[x] = "bad" /\ Overridable(x)}}

EnvValues ==
  /\ at = "env"
  /\ setting' = EnvSettings
  /\ lists' = Extended("env", given.env, {"initScript"})
  /\ told' = told \cup EnvTold
  /\ Then("late")
  /\ UNCHANGED loaded

(* applyPermissionsEnv, which adds, and applyServiceWorkersEnv.                *)
PermissionsOnly == [lists EXCEPT !["permissions"] = IF given.env["permissions"] = "ok" THEN <<"env">> ELSE @]     \* mutant: the list is replaced
Permissions == Extended("env", given.env, {"permissions"})
LateValues ==
  /\ at = "late"
  /\ setting' = Set("env", given.env, {"serviceWorkers"})
  /\ lists' = Permissions
  /\ told' = told \cup {<<"env", k>> : k \in {x \in {"permissions", "serviceWorkers"} : given.env[x] = "bad"}}
  /\ Then("done")
  /\ UNCHANGED loaded

Next == LegacyProxy \/ ReadFile \/ AutoVideo \/ FileValues \/ EnvValues \/ LateValues

Spec == Init /\ [][Next]_vars

-----------------------------------------------------------------------------
(* Settings are named by their source, lists hold each source at most once.    *)
TypeOK ==
  /\ at \in {"proxy", "path", "video", "file", "env", "late", "done", "failed"}
  /\ setting \in [Scalars -> {"default", "flag", "env", "config", "legacy"}]
  /\ \A k \in Lists : lists[k] \in {<< >>, <<"config">>, <<"env">>, <<"config", "env">>}
  /\ told \subseteq {"env", "config"} \X AllKeys
  /\ loaded \in BOOLEAN

(* A file in the working directory that cannot be read ends the settling.      *)
Skipped == ~Explicit /\ given.disk = "unreadable"

(* Once settled, an option is the flag's, else the environment's, else the     *)
(* file's, else what the older proxy variable says, whatever the order the     *)
(* code looks at them in (applyPlaywrightConfig).                              *)
StrongestWins ==
  (at = "done" /\ ~Skipped) =>
    \A k \in Scalars :
      setting[k] = CASE k \in given.flags -> "flag"
                     [] k \notin given.flags /\ given.env[k] = "ok" -> "env"
                     [] k \notin given.flags /\ given.env[k] # "ok" /\ given.file[k] = "ok" -> "config"
                     [] k \notin given.flags /\ given.env[k] # "ok" /\ given.file[k] # "ok"
                          /\ k = "proxy" /\ given.legacy -> "legacy"
                     [] OTHER -> "default"

(* A value that is refused is reported, unless a flag takes its place          *)
(* (unsupported_fields of config-print).  The navigation timeout of the file   *)
(* is the exception: one that is not positive is passed over in silence.       *)
RefusedIsTold ==
  (at = "done" /\ ~Skipped) =>
    \A o \in Refused("env", given.env) \cup (Refused("config", given.file) \ {<<"config", "timeout">>}) :
      o \in told \/ o[2] \in given.flags

(* Permissions and init scripts of the file and of the environment are both    *)
(* in force (applyConfigValues, applyPermissionsEnv).                          *)
ListsJoined ==
  (at = "done" /\ ~Skipped) =>
    \A k \in Lists : /\ (given.file[k] = "ok" => "config" \in {lists[k][i] : i \in DOMAIN lists[k]})
                     /\ (given.env[k] = "ok" => "env" \in {lists[k][i] : i \in DOMAIN lists[k]})

(* A file the user named is in force or the command fails.                     *)
NamedFileUsed == (at = "done" /\ Explicit) => loaded

(* The environment overrides apply, with or without a config file.             *)
EnvOverrides ==
  at = "done" => \A k \in Scalars : (given.env[k] = "ok" /\ k \notin given.flags) => setting[k] = "env"
=============================================================================
