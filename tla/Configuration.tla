---------------------------- MODULE Configuration ----------------------------
(***************************************************************************)
(* What the administrator configures: the file settings.json               *)
(* (services/settings_store.py), the Settings object the services read,    *)
(* the routes that change both (services/setup.py, api/setup_routes.py,    *)
(* the source selection of services/telegram_sources.py), the directories  *)
(* made on a selected disk (services/storage_browser.py) and the script    *)
(* that makes the container again with that disk                           *)
(* (scripts/apply-storage.sh).                                             *)
(*                                                                         *)
(* No route awaits between reading the file and answering, so routes do    *)
(* not overlap; but a write may fail and the process may be killed at      *)
(* every step, and the script is a process of its own.                     *)
(***************************************************************************)
EXTENDS Naturals

CONSTANTS
    Values,       \* Values[k]: what key k may be set to
    Default,      \* Default[f]: the field of Settings when nothing sets it
    Environments, \* sets of fields given by environment variables, with values
    Chats,        \* the Telegram sources
    MaxFaults     \* bound: failed saves, ends of the process and of the script

\* The fields of Settings that can be configured, and the keys of
\* settings.json, which are named after them.
Fields == {"api_id", "api_hash", "download_root", "temp_dir", "enabled", "url", "key"}
Keys == Fields \cup {"admin", "disk", "sources", "completed"}

ASSUME ConfigurationAssumption ==
    /\ DOMAIN Values = Keys /\ DOMAIN Default = Fields
    /\ \A e \in Environments : DOMAIN e \subseteq Fields \cup {"password", "chats"}
    /\ MaxFaults \in Nat

\* A file that holds half of a write: it has no key that the program reads.
Torn == [half |-> "written"]

\* The values that the routes make themselves; what they require is not empty.
ASSUME ValuesAssumption ==
    /\ Values["enabled"] = BOOLEAN /\ Default["enabled"] = FALSE
    /\ SUBSET Chats \subseteq Values["sources"]
    /\ "/downloads" \in Values["download_root"] /\ "/incomplete" \in Values["temp_dir"]
    /\ "approved" \in Values["disk"] /\ TRUE \in Values["completed"]
    /\ \A f \in {"api_id", "api_hash", "key"} : Default[f] \notin Values[f]

VARIABLES
    env,        \* what the environment sets
    file,       \* settings.json: the keys that were ever set
    settings,   \* the Settings object
    up,         \* does the process run?
    op,         \* the route in progress: where it is, what it saves, and
                \* its temporary file
    checking,   \* is complete() past its await, the session authorized?
    layout,     \* the managed directories on the disk: "none", "partial", "whole"
    marker,     \* the file pending-download-host-dir
    dotenv,     \* does .env name the selected disk?
    mounted,    \* does the container use it?
    script,     \* where apply-storage.sh is
    answered,   \* history: the values that were answered to be saved
    faults      \* how many faults there were

store == <<file, settings, op, answered>>
disk == <<layout, marker, dotenv, mounted, script>>
vars == <<env, store, up, checking, disk, faults>>

Idle == [pc |-> "idle", values |-> <<>>, temporary |-> Torn]

Init ==
    /\ env \in Environments
    /\ file = <<>>
    /\ settings = [f \in Fields |-> Default[f]]
    /\ up = FALSE
    /\ op = Idle
    /\ checking = FALSE
    /\ layout = "none"
    /\ marker = "absent"
    /\ dotenv = FALSE
    /\ mounted = FALSE
    /\ script = "idle"
    /\ answered = <<>>
    /\ faults = 0

-----------------------------------------------------------------------------
(* SettingsStore: a key of the file, and RuntimeSettings.apply_persisted:  *)
(* the environment before the file before the default.                     *)

Has(k) == k \in DOMAIN file

Effective(f) ==
    IF f \in DOMAIN env THEN env[f] ELSE IF Has(f) THEN file[f] ELSE Default[f]

Selected == IF Has("sources") THEN file["sources"] ELSE {}

\* A variable of the environment may be set and empty.
Given(f) == f \in DOMAIN env /\ env[f] # Default[f]

Legacy == Given("api_id") /\ Given("api_hash") /\ "password" \in DOMAIN env

SetupCompleted == Has("completed") \/ Legacy

AdminConfigured == Has("admin") \/ "password" \in DOMAIN env

\* effective_ids: the selection, or else the ALLOWED_CHAT_IDS.
Sources == IF Selected = {} /\ "chats" \in DOMAIN env THEN env["chats"] ELSE Selected

Fault ==
    /\ faults < MaxFaults
    /\ faults' = faults + 1

Boot ==
    /\ ~ up
    /\ file # Torn
    /\ up' = TRUE
    /\ settings' = [f \in Fields |-> Effective(f)]
    /\ UNCHANGED <<env, file, op, answered, checking, disk, faults>>

\* The end of the process: what it has in memory is gone.
Exit ==
    /\ up' = FALSE
    /\ op' = Idle
    /\ checking' = FALSE
    /\ settings' = [f \in Fields |-> Default[f]]

Stop ==
    /\ Fault
    /\ up
    /\ Exit
    /\ UNCHANGED <<env, file, answered, disk>>

-----------------------------------------------------------------------------
(* A save: update() merges the values into the file and writes the result  *)
(* to a temporary file, which is put in the place of the old one when it   *)
(* is complete and synced; then the Settings object follows.               *)

\* dict.update: the values take the place of those that were there.
Updated(f, values) ==
    [k \in DOMAIN f \cup DOMAIN values |->
        IF k \in DOMAIN values THEN values[k] ELSE f[k]]

Forget(keys) == [k \in DOMAIN answered \ keys |-> answered[k]]

\* The fixed directories of the container, saved before the selected disk.
Managed == [download_root |-> "/downloads", temp_dir |-> "/incomplete"]
Disk == [disk |-> "approved"]

\* A route that has accepted its request opens the temporary file, whose
\* name nobody else uses or reads: a killed process leaves it behind.
Save(values) ==
    /\ op' = [pc |-> "write", values |-> values, temporary |-> Torn]
    /\ answered' = Forget(DOMAIN values \cup IF values = Managed THEN DOMAIN Disk ELSE {})
    /\ UNCHANGED <<file, settings>>

\* Mutant: the values take the place of the section instead of updating it.
Section(k) == CHOOSE s \in {{"api_id", "api_hash"}, {"enabled", "url", "key"},
                            {"download_root", "temp_dir", "disk"}, {"admin"},
                            {"sources"}, {"completed"}} : k \in s

WriteSection ==
    /\ op.pc = "write"
    /\ LET kept == {k \in DOMAIN file : \A m \in DOMAIN op.values : k \notin Section(m)}
       IN op' = [op EXCEPT !.pc = "replace",
                           !.temporary = Updated([k \in kept |-> file[k]], op.values)]
    /\ UNCHANGED <<env, file, settings, answered, up, checking, disk, faults>>

Write ==
    /\ op.pc = "write"
    /\ op' = [op EXCEPT !.pc = "replace", !.temporary = Updated(file, op.values)]
    /\ UNCHANGED <<env, file, settings, answered, up, checking, disk, faults>>

\* Mutant: the file is replaced while the temporary one is still open, with
\* what happens to be written of it.
ReplaceEarly ==
    /\ op.pc \in {"write", "replace"}
    /\ file' = op.temporary
    /\ op' = [op EXCEPT !.pc = "apply", !.temporary = Torn]
    /\ UNCHANGED <<env, settings, answered, up, checking, disk, faults>>

Replace ==
    /\ op.pc = "replace"
    /\ file' = op.temporary
    /\ op' = [op EXCEPT !.pc = "apply", !.temporary = Torn]
    /\ UNCHANGED <<env, settings, answered, up, checking, disk, faults>>

\* Any step of the write may fail, the chmod after the replacement included:
\* the route answers 500 and the Settings object stays as it is.
SaveFails ==
    /\ Fault
    /\ op.pc \in {"write", "replace", "apply"}
    /\ op' = Idle
    /\ UNCHANGED <<env, file, settings, answered, up, checking, disk>>

\* Mutant: the environment is not asked.
AppliedAlways ==
    [f \in Fields |-> IF f \in DOMAIN op.values THEN op.values[f] ELSE settings[f]]

\* Fields given by the environment are saved but not applied.
Applied ==
    [f \in Fields |-> IF f \in DOMAIN op.values \ DOMAIN env THEN op.values[f] ELSE settings[f]]

\* The route answers, or, when it selects a disk, saves the disk next and
\* then its marker file.
Apply ==
    /\ op.pc = "apply"
    /\ settings' = Applied
    /\ op' = IF op.values = Managed THEN [op EXCEPT !.pc = "write", !.values = Disk]
             ELSE IF op.values = Disk THEN [op EXCEPT !.pc = "marker"]
             ELSE Idle
    /\ answered' = IF op'.pc = "idle" THEN Updated(answered, op.values) ELSE answered
    /\ UNCHANGED <<env, file, up, checking, disk, faults>>

WriteMarker ==
    /\ op.pc = "marker"
    /\ marker' = "approved"
    /\ op' = Idle
    /\ answered' = Updated(Updated(answered, Managed), Disk)
    /\ UNCHANGED <<env, file, settings, up, checking, layout, dotenv, mounted, script, faults>>

\* write_text truncates the marker before it writes it; the chmod after it
\* may fail too.
MarkerFails ==
    /\ Fault
    /\ op.pc = "marker"
    /\ marker' \in {marker, "torn", "approved"}
    /\ op' = Idle
    /\ UNCHANGED <<env, file, settings, answered, up, checking, layout, dotenv, mounted, script>>

-----------------------------------------------------------------------------
(* The routes, up to their first write.  A refused request changes nothing *)
(* and has no action; all but the first are for the administrator.         *)

Serving == up /\ op.pc = "idle"

Admitted == Serving /\ AdminConfigured

\* Mutant: the administrator is saved under another name.
CreateAdminMisspelt ==
    /\ Serving
    /\ ~ SetupCompleted
    /\ ~ Has("admin")
    /\ \E a \in Values["admin"] : Save([administrator |-> a])
    /\ UNCHANGED <<env, up, checking, disk, faults>>

CreateAdmin ==
    /\ Serving
    /\ ~ SetupCompleted
    /\ ~ Has("admin")
    /\ \E a \in Values["admin"] : Save([admin |-> a])
    /\ UNCHANGED <<env, up, checking, disk, faults>>

\* The hash may be left out when there is one already.
SaveTelegram ==
    /\ Admitted
    /\ \E i \in Values["api_id"], h \in Values["api_hash"] :
        \/ Save([api_id |-> i, api_hash |-> h])
        \/ /\ Has("api_hash") \/ settings["api_hash"] # Default["api_hash"]
           /\ Save([api_id |-> i])
    /\ UNCHANGED <<env, up, checking, disk, faults>>

\* Mutant: nobody asks for the key.
SaveJellyfinAnyway ==
    /\ Admitted
    /\ \E e \in BOOLEAN, u \in Values["url"] :
        /\ e => u # Default["url"]
        /\ Save([enabled |-> e, url |-> u])
    /\ UNCHANGED <<env, up, checking, disk, faults>>

\* The key may be left out when there is one already or none is needed.
SaveJellyfin ==
    /\ Admitted
    /\ \E e \in BOOLEAN, u \in Values["url"], k \in Values["key"] :
        /\ e => u # Default["url"]
        /\ \/ Save([enabled |-> e, url |-> u, key |-> k])
           \/ /\ e => Has("key") \/ settings["key"] # Default["key"]
              /\ Save([enabled |-> e, url |-> u])
    /\ UNCHANGED <<env, up, checking, disk, faults>>

\* prepare_disk makes the directories one after the other, those that are
\* missing.  (Refused while active_downloads is not zero.)
SaveStorageDisk ==
    /\ Admitted
    /\ layout' = "whole"
    /\ Save(Managed)
    /\ UNCHANGED <<env, up, checking, marker, dotenv, mounted, script, faults>>

\* The disk is full or read-only: the route answers 400.
PrepareFails ==
    /\ Fault
    /\ Admitted
    /\ layout # "whole"
    /\ layout' = "partial"
    /\ UNCHANGED <<env, store, up, checking, marker, dotenv, mounted, script>>

\* Sources that Telegram lists, or listed when the list was cached, and those
\* that are selected already: any set of them.
SaveSources ==
    /\ Admitted
    /\ \E ids \in SUBSET Chats : Save([sources |-> ids])
    /\ UNCHANGED <<env, up, checking, disk, faults>>

\* validate() awaits the status of the login, then makes its checks.  When
\* the session is not authorized, they fail and nothing changes.
CompleteAsks ==
    /\ Admitted
    /\ checking' = TRUE
    /\ UNCHANGED <<env, store, up, disk, faults>>

Checks ==
    { AdminConfigured,
      settings["api_id"] # Default["api_id"] /\ settings["api_hash"] # Default["api_hash"],
      settings["enabled"] => settings["url"] # Default["url"] /\ settings["key"] # Default["key"],
      Sources # {} }

\* Mutant: any() instead of all().
ReadyForAny == TRUE \in Checks

Ready == FALSE \notin Checks

Complete ==
    /\ Admitted
    /\ checking
    /\ checking' = FALSE
    /\ \/ Ready /\ Save([completed |-> TRUE])
       \/ UNCHANGED store      \* refused: a check, or a directory, has failed
    /\ UNCHANGED <<env, up, disk, faults>>

-----------------------------------------------------------------------------
(* apply-storage.sh: it refuses a disk without its directories; then .env  *)
(* names the disk, the marker is removed and the container is made again.  *)

\* Mutant: the marker is removed first.
ScriptConsumes ==
    /\ script = "idle"
    /\ marker = "approved" /\ layout = "whole"
    /\ marker' = "absent"
    /\ script' = "moving"
    /\ UNCHANGED <<env, store, up, checking, layout, dotenv, mounted, faults>>

ScriptStarts ==
    /\ script = "idle"
    /\ marker = "approved" /\ layout = "whole"
    /\ script' = "moving"
    /\ UNCHANGED <<env, store, up, checking, layout, marker, dotenv, mounted, faults>>

ScriptMoves ==
    /\ script = "moving"
    /\ dotenv' = TRUE
    /\ script' = "removing"
    /\ UNCHANGED <<env, store, up, checking, layout, marker, mounted, faults>>

ScriptRemoves ==
    /\ script = "removing"
    /\ marker' = "absent"
    /\ script' = "recreating"
    /\ UNCHANGED <<env, store, up, checking, layout, dotenv, mounted, faults>>

\* docker compose up --force-recreate ends the process and binds what .env
\* names.  Whether the container then answers changes nothing.
ScriptRecreates ==
    /\ script = "recreating"
    /\ mounted' = dotenv
    /\ Exit
    /\ script' = "idle"
    /\ UNCHANGED <<env, file, answered, layout, marker, dotenv, faults>>

\* It is killed, or docker compose fails.
ScriptDies ==
    /\ Fault
    /\ script # "idle"
    /\ script' = "idle"
    /\ UNCHANGED <<env, store, up, checking, layout, marker, dotenv, mounted>>

-----------------------------------------------------------------------------
Saving == Write \/ Replace \/ SaveFails \/ Apply \/ WriteMarker \/ MarkerFails

Routes ==
    \/ CreateAdmin \/ SaveTelegram \/ SaveJellyfin \/ SaveStorageDisk
    \/ PrepareFails \/ SaveSources \/ CompleteAsks \/ Complete

Script ==
    \/ ScriptStarts \/ ScriptMoves \/ ScriptRemoves \/ ScriptRecreates
    \/ ScriptDies

Next == Boot \/ Stop \/ Saving \/ Routes \/ Script

Spec == Init /\ [][Next]_vars

-----------------------------------------------------------------------------
(* Type invariant: the values each part of the state may take.             *)
Partial(f, keys) == DOMAIN f \subseteq keys /\ \A k \in DOMAIN f : f[k] \in Values[k]

TypeOK ==
    /\ env \in Environments
    /\ file = Torn \/ Partial(file, Keys)
    /\ Partial(op.values, Keys)
    /\ op.temporary = Torn \/ Partial(op.temporary, Keys)
    /\ op.pc \in {"idle", "write", "replace", "apply", "marker"}
    /\ Partial(answered, Keys)
    /\ DOMAIN settings = Fields
    /\ \A f \in Fields : 
        settings[f] \in Values[f] \cup {Default[f]} \/ settings[f] = env[f]
    /\ {up, checking, dotenv, mounted} \subseteq BOOLEAN
    /\ layout \in {"none", "partial", "whole"}
    /\ marker \in {"absent", "approved", "torn"}
    /\ script \in {"idle", "moving", "removing", "recreating"}
    /\ faults \in 0..MaxFaults

(* "Browser-managed settings are stored atomically" (README.md): a process *)
(* killed or an error at any step of a save never leaves a file that the   *)
(* next start cannot read, and no start finds half of what was saved       *)
(* together: a hash without its id, a URL without the choice to use it, or *)
(* one of the two directories.                                             *)
FileIsWhole ==
    /\ file # Torn
    /\ Has("api_hash") => Has("api_id")
    /\ Has("key") => Has("enabled")
    /\ Has("enabled") <=> Has("url")
    /\ Has("download_root") <=> Has("temp_dir")
    /\ Has("disk") => Has("download_root")

(* What the dashboard has answered to be saved is in the file, and in use  *)
(* unless the environment says otherwise, through restarts and through     *)
(* later saves of other values, complete or not.                           *)
AnsweredIsKept ==
    \A k \in DOMAIN answered :
        /\ Has(k)
        /\ file[k] = answered[k]
        /\ up /\ k \in Fields \ DOMAIN env => settings[k] = answered[k]

(* "... never silently replaces an explicit environment value" (README.md).*)
EnvironmentWins ==
    up => \A f \in Fields \cap DOMAIN env : settings[f] = env[f]

(* When the setup has been completed, the application has an administrator *)
(* and Telegram credentials, now and after every restart, whatever is      *)
(* saved later.  (The selection of sources may be emptied again.)          *)
CompletedSetupIsWhole ==
    Has("completed") =>
        /\ AdminConfigured
        /\ \A f \in {"api_id", "api_hash"} : Effective(f) # Default[f]

(* No start finds Jellyfin enabled without a URL or a key, however the      *)
(* values were saved, one at a time or in part, except for what the         *)
(* environment sets itself.  (The running process may, when a key was      *)
(* saved and its save refused: only the file holds it then.)               *)
EnabledJellyfinIsUsable ==
    "enabled" \notin DOMAIN env /\ Effective("enabled") =>
        \A f \in {"url", "key"} \ DOMAIN env : Effective(f) # Default[f]

(* A disk whose selection was answered is named by .env or waits for the   *)
(* script, which will accept it, wherever the script, the process, the     *)
(* making of the directories or a later selection is interrupted; and      *)
(* neither .env nor the container ever names a disk without its            *)
(* directories.  (A script that is killed, or whose docker compose fails,  *)
(* after the marker is removed leaves the container with the old           *)
(* directories, until the disk is selected again or something else makes   *)
(* the container again.)                                                   *)
SelectionIsNotLost ==
    /\ "disk" \in DOMAIN answered => layout = "whole" /\ (dotenv \/ marker = "approved")
    /\ dotenv \/ mounted => layout = "whole"
=============================================================================
