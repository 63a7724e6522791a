----------------------------- MODULE MCStartup -----------------------------
(***************************************************************************)
(* What a run starts from: its settings, then the session that bootstrap   *)
(* opens with the service.  Neither reads the state of the other, so one   *)
(* run checks them side by side: `part` says which of them moves.          *)
(***************************************************************************)
EXTENDS Config, Session

CONSTANTS Parts, a, b, i, placeholder
VARIABLE part

\* An id of one creator, six files, thirteen command lines.
MCNameOf == [x \in Ids |-> b]

MCProfiles == {
    <<>>,
    [usernames |-> {a}, stash |-> TRUE, scan_settle_s |-> "own",
     session_baseline |-> "file", directory |-> "own", temp_folder |-> "own"],
    [usernames |-> {a}, use_following |-> TRUE, daemon_mode |-> TRUE, token |-> "own"],
    [usernames |-> {placeholder}, credentials |-> TRUE],
    [wall |-> {a, i}, download_mode |-> "wall", daemon_mode |-> TRUE,
     pg_password |-> "own"],
    [wall |-> {i}, download_mode |-> "wall", daemon_mode |-> TRUE]}

MCFlagSets == {
    <<>>,
    [users |-> {a}], [users |-> {b}, quiet |-> TRUE], [users |-> {i}],
    [following |-> TRUE, daemon |-> TRUE], [following |-> TRUE, users |-> {a}],
    [mode |-> "stash_only"], [mode |-> "timeline", token |-> "flag"],
    [mode |-> "stash_only", daemon |-> TRUE],
    [wall |-> {a, i}], [wall |-> {a}, users |-> {b}], [wall |-> {a}, mode |-> "wall"],
    [full_pass |-> TRUE, retries |-> "flag"]}

allVars == <<part, configVars, vars>>

\* The part that does not move starts in one of its initial states only.
StartupInit == /\ part \in Parts /\ ConfigInit /\ Init
               /\ part # "config" => files = <<>>
               /\ part # "session" => attached
StartupNext == /\ \/ part = "config" /\ ConfigNext /\ UNCHANGED vars
                  \/ part = "session" /\ Next /\ UNCHANGED configVars
               /\ UNCHANGED part
StartupSpec == StartupInit /\ [][StartupNext]_allVars

\* Both parts are well typed (config/, metadata/account.py, daemon/bootstrap.py).
StartupTypeOK == ConfigTypeOK /\ TypeOK
=============================================================================
