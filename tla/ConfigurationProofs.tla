------------------------ MODULE ConfigurationProofs ------------------------
(***************************************************************************)
(* Safety of Configuration for all values, defaults, environments and      *)
(* sources, and for any number of faults.                                  *)
(***************************************************************************)
EXTENDS Configuration, TLAPS

\* The values of some keys: a file that is whole, a request, what was answered.
IsValues(f) ==
    /\ f = [k \in DOMAIN f |-> f[k]]
    /\ DOMAIN f \subseteq Keys
    /\ \A k \in DOMAIN f : f[k] \in Values[k]

TypeInv ==
    /\ env \in Environments
    /\ IsValues(file) /\ IsValues(answered) /\ IsValues(op.values)
    /\ op = [pc |-> op.pc, values |-> op.values, temporary |-> op.temporary]
    /\ op.temporary = Torn \/ IsValues(op.temporary)
    /\ op.pc \in {"idle", "write", "replace", "apply", "marker"}
    /\ settings = [f \in Fields |-> settings[f]]
    /\ \A f \in Fields :
        \/ settings[f] \in Values[f] \cup {Default[f]}
        \/ f \in DOMAIN env /\ settings[f] = env[f]
    /\ up \in BOOLEAN /\ checking \in BOOLEAN
    /\ dotenv \in BOOLEAN /\ mounted \in BOOLEAN
    /\ layout \in {"none", "partial", "whole"}
    /\ marker \in {"absent", "approved", "torn"}
    /\ script \in {"idle", "moving", "removing", "recreating"}
    /\ faults \in 0..MaxFaults

StorageKeys == {"download_root", "temp_dir", "disk"}

\* The sets of keys that are saved together.
Shapes ==
    { {"admin"}, {"api_id", "api_hash"}, {"api_id"},
      {"enabled", "url", "key"}, {"enabled", "url"},
      {"download_root", "temp_dir"}, {"disk"}, {"sources"}, {"completed"} }

Shaped(values) ==
    /\ DOMAIN values \in Shapes
    /\ DOMAIN values = {"download_root", "temp_dir"} => values = Managed
    /\ DOMAIN values = {"disk"} => values = Disk

\* The keys that the request in progress is about to change.
Pending ==
    DOMAIN op.values \cup IF op.values \in {Managed, Disk} THEN StorageKeys ELSE {}

\* What is about to take the place of the file was made of it.
RequestInv ==
    /\ op.pc # "idle" => up /\ Shaped(op.values)
    /\ op.pc = "replace" => op.temporary = Updated(file, op.values)
    /\ op.pc = "marker" => op.values = Disk

(* What was answered is not touched by the request in progress, and what   *)
(* that request has saved so far is in the file.                           *)
KeptInv ==
    /\ AnsweredIsKept
    /\ op.pc # "idle" => DOMAIN answered \cap Pending = {}
    /\ op.pc \in {"apply", "marker"} =>
        \A k \in DOMAIN op.values : Has(k) /\ file[k] = op.values[k]
    /\ op.pc # "idle" /\ op.values = Disk =>
        \A k \in DOMAIN Managed :
            /\ Has(k) /\ file[k] = Managed[k]
            /\ k \notin DOMAIN env => settings[k] = Managed[k]

\* The script removes the marker when .env names the disk, and the directories
\* of a disk that it has accepted, or that a request has prepared, are there.
DiskInv ==
    /\ SelectionIsNotLost
    /\ op.pc # "idle" /\ op.values \in {Managed, Disk} => layout = "whole"
    /\ script # "idle" => layout = "whole"
    /\ script \in {"removing", "recreating"} => dotenv

\* What complete() has found, of what stays as it is.
SetupIsWhole ==
    /\ AdminConfigured
    /\ \A f \in {"api_id", "api_hash"} : Effective(f) # Default[f]

\* What is saved with an enabled Jellyfin, or was before.
Usable(values) ==
    "enabled" \in DOMAIN values /\ values["enabled"] = TRUE =>
        /\ "url" \in DOMAIN values /\ values["url"] # Default["url"]
        /\ "key" \in DOMAIN env \/ "key" \in DOMAIN values \/ Has("key")

(* The running process never knows a secret that the next start does not;  *)
(* what the file and the request say of the setup and of Jellyfin is whole.*)
SetupInv ==
    /\ up => \A f \in {"api_id", "api_hash", "key"} :
                settings[f] # Default[f] => Effective(f) # Default[f]
    /\ Has("completed") => SetupIsWhole
    /\ op.pc # "idle" /\ "completed" \in DOMAIN op.values => SetupIsWhole
    /\ Usable(file)
    /\ op.pc # "idle" => Usable(op.values)

ConfigurationInv ==
    /\ TypeInv /\ RequestInv /\ EnvironmentWins /\ FileIsWhole
    /\ KeptInv /\ DiskInv /\ SetupInv

-----------------------------------------------------------------------------
(* Functions that update() and the answers make.                           *)

LEMMA UpdatedIsValues ==
    ASSUME NEW f, NEW g, IsValues(f), IsValues(g)
    PROVE  IsValues(Updated(f, g))
BY DEF IsValues, Updated

LEMMA ForgetIsValues ==
    ASSUME NEW keys, IsValues(answered)
    PROVE  IsValues(Forget(keys))
BY DEF Forget, IsValues

LEMMA StorageValues ==
    /\ IsValues(Managed) /\ DOMAIN Managed = {"download_root", "temp_dir"}
    /\ IsValues(Disk) /\ DOMAIN Disk = {"disk"}
    /\ Managed # Disk
BY ValuesAssumption DEF IsValues, Managed, Disk, Keys, Fields

-----------------------------------------------------------------------------
(* What the routes have in common: they leave everything alone, or start   *)
(* to save a request that they have found to be in order.                  *)

Request(values) ==
    /\ IsValues(values) /\ Shaped(values) /\ values # Disk
    /\ Usable(values)
    /\ "completed" \in DOMAIN values => SetupIsWhole
    /\ Save(values)
    /\ layout' = IF values = Managed THEN "whole" ELSE layout

LEMMA OtherRequest ==
    ASSUME NEW values, IsValues(values), Save(values), layout' = layout,
           DOMAIN values \in {{"admin"}, {"api_id", "api_hash"}, {"api_id"}, {"sources"}}
    PROVE  Request(values)
BY StorageValues DEF Request, Shaped, Shapes, Usable

LEMMA RouteStep ==
    ASSUME TypeInv, SetupInv, Routes
    PROVE  /\ UNCHANGED <<env, file, settings, up, marker, dotenv, mounted, script>>
           /\ up /\ op.pc = "idle"
           /\ checking' \in BOOLEAN /\ faults' \in 0..MaxFaults
           /\ \/ UNCHANGED <<op, answered>> /\ layout' \in {layout, "partial"}
                 /\ (layout = "whole" => layout' = layout)
              \/ \E values : Request(values)
<1> USE DEF Serving, Admitted, disk, store
<1>1. CASE CreateAdmin
  <2>1. PICK a \in Values["admin"] : Save([admin |-> a])
    BY <1>1 DEF CreateAdmin
  <2>2. IsValues([admin |-> a]) /\ DOMAIN [admin |-> a] = {"admin"}
    BY DEF IsValues, Keys
  <2>3. Request([admin |-> a])
    BY <1>1, <2>1, <2>2, OtherRequest DEF CreateAdmin
  <2> QED BY <1>1, <2>1, <2>3 DEF CreateAdmin, TypeInv, Save
<1>2. CASE SaveTelegram
  <2>1. PICK i \in Values["api_id"], h \in Values["api_hash"] :
            Save([api_id |-> i, api_hash |-> h]) \/ Save([api_id |-> i])
    BY <1>2 DEF SaveTelegram
  <2>2. IsValues([api_id |-> i, api_hash |-> h]) /\ IsValues([api_id |-> i])
    BY DEF IsValues, Keys, Fields
  <2>3. /\ DOMAIN [api_id |-> i, api_hash |-> h] = {"api_id", "api_hash"}
        /\ DOMAIN [api_id |-> i] = {"api_id"}
    OBVIOUS
  <2>4. \E values : Request(values)
    BY <1>2, <2>1, <2>2, <2>3, OtherRequest DEF SaveTelegram
  <2> QED BY <1>2, <2>1, <2>4 DEF SaveTelegram, TypeInv, Save
<1>3. CASE SaveJellyfin
  <2>1. PICK e \in BOOLEAN, u \in Values["url"], k \in Values["key"] :
            /\ e => u # Default["url"]
            /\ \/ Save([enabled |-> e, url |-> u, key |-> k])
               \/ /\ e => Has("key") \/ settings["key"] # Default["key"]
                  /\ Save([enabled |-> e, url |-> u])
    BY <1>3 DEF SaveJellyfin
  <2>2. settings["key"] # Default["key"] => "key" \in DOMAIN env \/ Has("key")
    BY <1>3 DEF SaveJellyfin, SetupInv, Effective
  <2>3. CASE Save([enabled |-> e, url |-> u, key |-> k])
    <3> DEFINE v == [enabled |-> e, url |-> u, key |-> k]
    <3>1. IsValues(v) /\ DOMAIN v = {"enabled", "url", "key"}
      BY ValuesAssumption DEF IsValues, Keys, Fields
    <3>2. v # Managed /\ v # Disk /\ Shaped(v)
      BY <3>1, StorageValues DEF Shaped, Shapes
    <3>3. Usable(v)
      BY <2>1 DEF Usable
    <3>4. Request(v)
      BY <1>3, <2>3, <3>1, <3>2, <3>3 DEF Request, SaveJellyfin
    <3> HIDE DEF v
    <3> QED BY <1>3, <2>3, <3>4 DEF SaveJellyfin, TypeInv, Save
  <2>4. CASE /\ e => Has("key") \/ settings["key"] # Default["key"]
             /\ Save([enabled |-> e, url |-> u])
    <3> DEFINE v == [enabled |-> e, url |-> u]
    <3>1. IsValues(v) /\ DOMAIN v = {"enabled", "url"}
      BY ValuesAssumption DEF IsValues, Keys, Fields
    <3>2. v # Managed /\ v # Disk /\ Shaped(v)
      BY <3>1, StorageValues DEF Shaped, Shapes
    <3>3. Usable(v)
      BY <2>1, <2>2, <2>4 DEF Usable
    <3>4. Request(v)
      BY <1>3, <2>4, <3>1, <3>2, <3>3 DEF Request, SaveJellyfin
    <3> HIDE DEF v
    <3> QED BY <1>3, <2>4, <3>4 DEF SaveJellyfin, TypeInv, Save
  <2> QED BY <2>1, <2>3, <2>4
<1>4. CASE SaveStorageDisk
  <2>1. Shaped(Managed) /\ Usable(Managed) /\ "completed" \notin DOMAIN Managed
    BY StorageValues DEF Shaped, Shapes, Usable
  <2>2. Request(Managed)
    BY <1>4, <2>1, StorageValues DEF Request, SaveStorageDisk
  <2> QED BY <1>4, <2>2 DEF SaveStorageDisk, TypeInv, Save
<1>5. CASE PrepareFails
  BY <1>5, ConfigurationAssumption DEF PrepareFails, Fault, TypeInv
<1>6. CASE SaveSources
  <2>1. PICK ids \in SUBSET Chats : Save([sources |-> ids])
    BY <1>6 DEF SaveSources
  <2>2. IsValues([sources |-> ids]) /\ DOMAIN [sources |-> ids] = {"sources"}
    BY ValuesAssumption DEF IsValues, Keys
  <2>3. Request([sources |-> ids])
    BY <1>6, <2>1, <2>2, OtherRequest DEF SaveSources
  <2> QED BY <1>6, <2>1, <2>3 DEF SaveSources, TypeInv, Save
<1>7. CASE CompleteAsks
  BY <1>7 DEF CompleteAsks, TypeInv
<1>8. CASE Complete
  <2>1. CASE Ready /\ Save([completed |-> TRUE])
    <3> DEFINE v == [completed |-> TRUE]
    <3>0. DOMAIN v = {"completed"} /\ v["completed"] = TRUE /\ v = [k \in DOMAIN v |-> v[k]]
      OBVIOUS
    <3>1. IsValues(v) /\ DOMAIN v = {"completed"}
      <4> HIDE DEF v
      <4> QED BY <3>0, ValuesAssumption DEF IsValues, Keys
    <3>2. v # Managed /\ v # Disk /\ Shaped(v) /\ Usable(v)
      BY <3>1, StorageValues DEF Shaped, Shapes, Usable
    <3>3. /\ AdminConfigured
          /\ settings["api_id"] # Default["api_id"] /\ settings["api_hash"] # Default["api_hash"]
      <4>1. FALSE \notin Checks
        BY <2>1 DEF Ready
      <4>2. AdminConfigured
        BY <4>1, Zenon DEF Checks, AdminConfigured
      <4>3. settings["api_id"] # Default["api_id"] /\ settings["api_hash"] # Default["api_hash"]
        BY <4>1, Zenon DEF Checks
      <4> QED BY <4>2, <4>3
    <3>4. SetupIsWhole
      BY <1>8, <3>3 DEF SetupIsWhole, SetupInv, Complete
    <3>5. Request(v)
      BY <1>8, <2>1, <3>1, <3>2, <3>4 DEF Request, Complete
    <3> HIDE DEF v
    <3> QED BY <1>8, <2>1, <3>5 DEF Complete, TypeInv, Save
  <2>2. CASE UNCHANGED store
    BY <1>8, <2>2 DEF Complete, TypeInv
  <2> QED BY <1>8, <2>1, <2>2 DEF Complete
<1> QED BY <1>1, <1>2, <1>3, <1>4, <1>5, <1>6, <1>7, <1>8 DEF Routes

-----------------------------------------------------------------------------
LEMMA EmptyIsValues == IsValues(<<>>)
BY DEF IsValues

LEMMA InitConfiguration == Init => ConfigurationInv
<1> SUFFICES ASSUME Init PROVE ConfigurationInv
    OBVIOUS
<1>0. op.pc = "idle" /\ op.values = <<>> /\ DOMAIN <<>> = {}
  BY DEF Init, Idle
<1>1. TypeInv
  <2>1. up \in BOOLEAN /\ checking \in BOOLEAN /\ dotenv \in BOOLEAN /\ mounted \in BOOLEAN
    BY DEF Init
  <2>2. IsValues(file) /\ IsValues(answered) /\ IsValues(op.values)
    BY <1>0, EmptyIsValues DEF Init
  <2>3. /\ op = [pc |-> op.pc, values |-> op.values, temporary |-> op.temporary]
        /\ op.temporary = Torn
    BY DEF Init, Idle
  <2> QED BY <1>0, <2>1, <2>2, <2>3, ConfigurationAssumption DEF Init, TypeInv
<1>2. RequestInv /\ EnvironmentWins /\ DiskInv
  BY <1>0 DEF Init, RequestInv, EnvironmentWins, DiskInv, SelectionIsNotLost
<1>3. KeptInv /\ FileIsWhole
  BY <1>0 DEF Init, KeptInv, AnsweredIsKept, FileIsWhole, Torn, Has
<1>4. SetupInv
  BY <1>0 DEF Init, SetupInv, Usable, Has
<1> QED BY <1>1, <1>2, <1>3, <1>4 DEF ConfigurationInv

\* What the end of the process leaves.
LEMMA ExitTypes ==
    ASSUME Exit
    PROVE  /\ up' = FALSE /\ checking' = FALSE /\ op'.pc = "idle"
           /\ op' = [pc |-> op'.pc, values |-> op'.values, temporary |-> op'.temporary]
           /\ op'.temporary = Torn /\ IsValues(op'.values)
           /\ settings' = [f \in Fields |-> settings'[f]]
           /\ \A f \in Fields : settings'[f] = Default[f]
BY EmptyIsValues DEF Exit, Idle

\* The script ends the process or does not touch it.
LEMMA ScriptStep ==
    ASSUME Script
    PROVE  /\ UNCHANGED <<env, file, answered, layout>>
           /\ UNCHANGED <<settings, op, up, checking>> \/ Exit
BY DEF Script, ScriptStarts, ScriptMoves, ScriptRemoves, ScriptRecreates, ScriptDies, store, disk

LEMMA TypeStep ==
    ASSUME TypeInv, RequestInv, SetupInv, [Next]_vars
    PROVE  TypeInv'
<1> USE DEF store, disk
<1>1. CASE Boot
  <2>1. \A f \in Fields :
           \/ Effective(f) \in Values[f] \cup {Default[f]}
           \/ f \in DOMAIN env /\ Effective(f) = env[f]
    BY DEF Effective, Has, TypeInv, IsValues
  <2> QED BY <1>1, <2>1 DEF Boot, TypeInv, IsValues
<1>2. CASE Stop
  BY <1>2, ExitTypes, ConfigurationAssumption DEF Stop, Fault, TypeInv, IsValues
<1>11. CASE Write
  <2>1. /\ op' = [pc |-> op'.pc, values |-> op'.values, temporary |-> op'.temporary]
        /\ op'.pc = "replace" /\ op'.values = op.values
        /\ op'.temporary = Updated(file, op.values)
    BY <1>11 DEF Write, TypeInv
  <2>2. IsValues(op'.temporary)
    BY <2>1, UpdatedIsValues DEF TypeInv
  <2> QED BY <1>11, <2>1, <2>2 DEF Write, TypeInv, IsValues
<1>3. CASE Replace
  <2>1. IsValues(file')
    BY <1>3, UpdatedIsValues DEF Replace, RequestInv, TypeInv
  <2>2. /\ op' = [pc |-> op'.pc, values |-> op'.values, temporary |-> op'.temporary]
        /\ op'.pc = "apply" /\ op'.values = op.values /\ op'.temporary = Torn
    BY <1>3 DEF Replace, TypeInv
  <2> QED BY <1>3, <2>1, <2>2 DEF Replace, TypeInv, IsValues
<1>4. CASE SaveFails
  BY <1>4, EmptyIsValues, ConfigurationAssumption DEF SaveFails, Fault, Idle, TypeInv, IsValues
<1>5. CASE Apply
  <2>1. op' \in {[pc |-> "write", values |-> Disk, temporary |-> op.temporary],
                 [pc |-> "marker", values |-> op.values, temporary |-> op.temporary], Idle}
    BY <1>5 DEF Apply, TypeInv
  <2>2. /\ op' = [pc |-> op'.pc, values |-> op'.values, temporary |-> op'.temporary]
        /\ op'.temporary \in {op.temporary, Torn}
        /\ op'.pc \in {"idle", "write", "marker"}
        /\ op'.values \in {Disk, op.values, <<>>}
    BY <2>1 DEF Idle
  <2>3. IsValues(op.values)' /\ IsValues(answered)'
    BY <1>5, <2>2, StorageValues, UpdatedIsValues DEF Apply, TypeInv, IsValues
  <2>4. /\ settings' = [f \in Fields |-> settings'[f]]
        /\ \A f \in Fields :
             \/ settings'[f] \in Values[f] \cup {Default[f]}
             \/ f \in DOMAIN env /\ settings'[f] = env[f]
    BY <1>5 DEF Apply, Applied, TypeInv, IsValues
  <2> QED BY <1>5, <2>2, <2>3, <2>4 DEF Apply, TypeInv, IsValues
<1>6. CASE WriteMarker
  <2>1. IsValues(answered')
    BY <1>6, StorageValues, UpdatedIsValues DEF WriteMarker, TypeInv
  <2> QED BY <1>6, <2>1, EmptyIsValues DEF WriteMarker, Idle, TypeInv, IsValues
<1>7. CASE MarkerFails
  BY <1>7, EmptyIsValues, ConfigurationAssumption DEF MarkerFails, Fault, Idle, TypeInv, IsValues
<1>8. CASE Routes
  <2>1. IsValues(op.values)' /\ IsValues(answered)'
        /\ op' = [pc |-> op'.pc, values |-> op'.values, temporary |-> op'.temporary]
        /\ (op'.temporary = Torn \/ IsValues(op'.temporary))
        /\ op'.pc \in {"idle", "write"}
        /\ layout' \in {"none", "partial", "whole"}
    <3>1. CASE UNCHANGED <<op, answered>> /\ layout' \in {layout, "partial"}
      BY <1>8, <3>1, RouteStep DEF TypeInv, IsValues
    <3>2. CASE \E values : Request(values)
      <4>1. PICK values : Request(values)
        BY <3>2
      <4>2. op'.values = values /\ op'.pc = "write" /\ op'.temporary = Torn
            /\ op' = [pc |-> op'.pc, values |-> op'.values, temporary |-> op'.temporary]
        BY <4>1 DEF Request, Save
      <4>3. IsValues(answered')
        BY <4>1, ForgetIsValues DEF Request, Save, TypeInv
      <4> QED BY <4>1, <4>2, <4>3 DEF Request, TypeInv, IsValues
    <3> QED BY <1>8, <3>1, <3>2, RouteStep
  <2>2. up' \in BOOLEAN /\ checking' \in BOOLEAN /\ faults' \in 0..MaxFaults
    BY <1>8, RouteStep DEF TypeInv
  <2>3. UNCHANGED <<env, file, settings, marker, dotenv, mounted, script>>
    BY <1>8, RouteStep
  <2>4. dotenv' \in BOOLEAN /\ mounted' \in BOOLEAN
    BY <2>3 DEF TypeInv
  <2> QED BY <2>1, <2>2, <2>3, <2>4 DEF TypeInv, IsValues
<1>9. CASE Script
  <2>1. /\ UNCHANGED <<env, file, answered, layout>>
        /\ (UNCHANGED <<settings, op, up, checking>> \/ Exit)
    BY <1>9, ScriptStep
  <2>2. /\ marker' \in {marker, "absent"} /\ faults' \in 0..MaxFaults
        /\ script' \in {"idle", "moving", "removing", "recreating"}
    BY <1>9, ConfigurationAssumption DEF Script, ScriptStarts, ScriptMoves, ScriptRemoves,
         ScriptRecreates, ScriptDies, Fault, TypeInv
  <2>3. dotenv' \in BOOLEAN /\ mounted' \in BOOLEAN
    BY <1>9 DEF Script, ScriptStarts, ScriptMoves, ScriptRemoves, ScriptRecreates, ScriptDies,
         TypeInv
  <2>4. CASE UNCHANGED <<settings, op, up, checking>>
    BY <2>1, <2>2, <2>3, <2>4 DEF TypeInv, IsValues
  <2>5. CASE Exit
    BY <2>1, <2>2, <2>3, <2>5, ExitTypes DEF TypeInv, IsValues
  <2> QED BY <2>1, <2>4, <2>5
<1>10. CASE UNCHANGED vars
  BY <1>10 DEF vars, TypeInv, IsValues
<1> QED BY <1>1, <1>2, <1>3, <1>4, <1>5, <1>6, <1>7, <1>8, <1>9, <1>10, <1>11 DEF Next, Saving

LEMMA RequestStep ==
    ASSUME TypeInv, RequestInv, SetupInv, [Next]_vars
    PROVE  RequestInv'
<1> USE DEF store, disk
<1>1. CASE Boot \/ Stop \/ SaveFails \/ WriteMarker \/ MarkerFails
  BY <1>1 DEF Boot, Stop, Exit, SaveFails, WriteMarker, MarkerFails, Idle, RequestInv
<1>2. CASE Write \/ Replace
  <2>1. /\ op.pc # "idle" /\ op'.values = op.values /\ up' = up
        /\ op'.pc \in {"replace", "apply"}
        /\ op'.pc = "replace" => op'.temporary = Updated(file, op.values) /\ file' = file
    BY <1>2 DEF Write, Replace, TypeInv
  <2> QED BY <2>1 DEF RequestInv
<1>3. CASE Apply
  <2>1. Shaped(Disk)
    BY StorageValues DEF Shaped, Shapes
  <2> QED BY <1>3, <2>1 DEF Apply, Idle, RequestInv, TypeInv
<1>4. CASE Routes
  <2>1. CASE \E values : Request(values)
    BY <1>4, <2>1, RouteStep DEF Request, Save, RequestInv
  <2> QED BY <1>4, <2>1, RouteStep DEF RequestInv
<1>5. CASE Script \/ UNCHANGED vars
  BY <1>5, ScriptStep, ExitTypes DEF vars, RequestInv
<1> QED BY <1>1, <1>2, <1>3, <1>4, <1>5 DEF Next, Saving

LEMMA EnvironmentStep ==
    ASSUME TypeInv, EnvironmentWins, SetupInv, [Next]_vars
    PROVE  EnvironmentWins'
<1> USE DEF store, disk
<1>1. CASE Boot
  BY <1>1 DEF Boot, Effective, EnvironmentWins
<1>2. CASE Apply
  BY <1>2 DEF Apply, Applied, EnvironmentWins
<1>3. CASE Routes
  BY <1>3, RouteStep DEF EnvironmentWins
<1>4. CASE Stop \/ Script
  BY <1>4, ScriptStep, ExitTypes DEF Stop, EnvironmentWins
<1>5. CASE Write \/ Replace \/ SaveFails \/ WriteMarker \/ MarkerFails \/ UNCHANGED vars
  BY <1>5 DEF Write, Replace, SaveFails, WriteMarker, MarkerFails, vars, EnvironmentWins
<1> QED BY <1>1, <1>2, <1>3, <1>4, <1>5 DEF Next, Saving

-----------------------------------------------------------------------------
LEMMA KeptStep ==
    ASSUME TypeInv, RequestInv, KeptInv, SetupInv, [Next]_vars
    PROVE  KeptInv'
<1> USE DEF store, disk
<1>1. CASE Boot
  <2>1. op'.pc = "idle" /\ UNCHANGED <<env, file, answered>>
    BY <1>1 DEF Boot, RequestInv, TypeInv
  <2>2. AnsweredIsKept'
    BY <1>1, <2>1 DEF Boot, Effective, Has, KeptInv, AnsweredIsKept
  <2> QED BY <2>1, <2>2 DEF KeptInv
<1>2. CASE Stop \/ SaveFails \/ MarkerFails
  BY <1>2 DEF Stop, Exit, SaveFails, MarkerFails, Idle, Has, KeptInv, AnsweredIsKept
<1>8. CASE Write
  <2>1. op.pc = "write" /\ op'.pc = "replace" /\ op'.values = op.values
        /\ UNCHANGED <<env, file, settings, up, answered>>
    BY <1>8 DEF Write, TypeInv
  <2> QED BY <2>1 DEF KeptInv, AnsweredIsKept, Has, Pending
<1>3. CASE Replace
  <2>1. op'.pc = "apply" /\ op'.values = op.values /\ op.pc # "idle"
    BY <1>3 DEF Replace, TypeInv
  <2>2. DOMAIN file' = DOMAIN file \cup DOMAIN op.values
    BY <1>3 DEF Replace, RequestInv, Updated
  <2>3. /\ \A k \in DOMAIN op.values : file'[k] = op.values[k]
        /\ \A k \in DOMAIN file \ DOMAIN op.values : file'[k] = file[k]
    BY <1>3 DEF Replace, RequestInv, Updated
  <2>4. DOMAIN answered \cap DOMAIN op.values = {}
    BY <2>1 DEF KeptInv, Pending
  <2>5. AnsweredIsKept'
    BY <1>3, <2>2, <2>3, <2>4 DEF Replace, Has, KeptInv, AnsweredIsKept
  <2>6. op.values = Disk => \A k \in DOMAIN Managed :
            /\ k \in DOMAIN file' /\ file'[k] = Managed[k]
            /\ k \notin DOMAIN env => settings[k] = Managed[k]
    BY <2>1, <2>2, <2>3, StorageValues DEF KeptInv, Has
  <2> QED BY <1>3, <2>1, <2>2, <2>3, <2>5, <2>6 DEF Replace, KeptInv, Pending, Has
<1>4. CASE Apply
  <2>1. op.pc = "apply" /\ UNCHANGED <<env, file, up>> /\ settings' = Applied
    BY <1>4 DEF Apply
  <2>2. \A k \in Fields : settings'[k] =
            IF k \in DOMAIN op.values \ DOMAIN env THEN op.values[k] ELSE settings[k]
    BY <2>1 DEF Applied
  <2>3. \A k \in DOMAIN op.values : Has(k) /\ file[k] = op.values[k]
    BY <2>1 DEF KeptInv
  <2>4. DOMAIN answered \cap Pending = {} /\ DOMAIN op.values \subseteq Pending
    BY <2>1 DEF KeptInv, Pending
  <2>5. CASE op.values \in {Managed, Disk}
    <3>1. answered' = answered /\ op'.values = Disk
      BY <1>4, <2>5, StorageValues DEF Apply, TypeInv
    <3>2. AnsweredIsKept'
      BY <2>1, <2>2, <2>4, <3>1 DEF KeptInv, AnsweredIsKept, Has
    <3>3. Pending' = Pending
      BY <2>5, <3>1, StorageValues DEF Pending, StorageKeys
    <3>4. \A k \in DOMAIN Managed :
              /\ Has(k) /\ file[k] = Managed[k]
              /\ k \notin DOMAIN env => settings'[k] = Managed[k]
      <4>1. CASE op.values = Managed
        BY <2>2, <2>3, <4>1, StorageValues DEF Fields
      <4>2. CASE op.values = Disk
        BY <2>1, <2>2, <4>2, StorageValues DEF KeptInv, Fields
      <4> QED BY <2>5, <4>1, <4>2
    <3>5. op'.pc \in {"apply", "marker"} => op.values = Disk
      BY <1>4, <2>5 DEF Apply, TypeInv
    <3> QED BY <2>1, <2>3, <2>4, <3>1, <3>2, <3>3, <3>4, <3>5 DEF KeptInv, Has
  <2>6. CASE op.values \notin {Managed, Disk}
    <3>1. op'.pc = "idle" /\ answered' = Updated(answered, op.values)
      BY <1>4, <2>6 DEF Apply, Idle
    <3>2. AnsweredIsKept'
      BY <2>1, <2>2, <2>3, <3>1 DEF KeptInv, AnsweredIsKept, Has, Updated
    <3> QED BY <3>1, <3>2 DEF KeptInv
  <2> QED BY <2>5, <2>6
<1>5. CASE WriteMarker
  <2>1. op.values = Disk /\ op'.pc = "idle" /\ UNCHANGED <<env, file, settings, up>>
    BY <1>5 DEF WriteMarker, Idle, RequestInv
  <2>2. /\ DOMAIN answered' = DOMAIN answered \cup DOMAIN Managed \cup DOMAIN Disk
        /\ \A k \in DOMAIN Disk : answered'[k] = Disk[k]
        /\ \A k \in DOMAIN Managed : answered'[k] = Managed[k]
        /\ \A k \in DOMAIN answered \ (DOMAIN Managed \cup DOMAIN Disk) : answered'[k] = answered[k]
    <3> DEFINE g == Updated(answered, Managed)
    <3>1. /\ DOMAIN g = DOMAIN answered \cup DOMAIN Managed
          /\ \A k \in DOMAIN Managed : g[k] = Managed[k]
          /\ \A k \in DOMAIN answered \ DOMAIN Managed : g[k] = answered[k]
      BY DEF Updated
    <3>2. answered' = Updated(g, Disk)
      BY <1>5 DEF WriteMarker
    <3> HIDE DEF g
    <3>3. /\ DOMAIN answered' = DOMAIN g \cup DOMAIN Disk
          /\ \A k \in DOMAIN Disk : answered'[k] = Disk[k]
          /\ \A k \in DOMAIN g \ DOMAIN Disk : answered'[k] = g[k]
      BY <3>2 DEF Updated
    <3> QED BY <3>1, <3>3, StorageValues
  <2>3. "disk" \notin Fields /\ Has("disk") /\ file["disk"] = Disk["disk"]
    BY <1>5, <2>1, StorageValues DEF WriteMarker, KeptInv, Fields
  <2>4. \A k \in DOMAIN Managed :
            /\ Has(k) /\ file[k] = Managed[k]
            /\ k \notin DOMAIN env => settings[k] = Managed[k]
    BY <1>5, <2>1 DEF WriteMarker, KeptInv
  <2>5. AnsweredIsKept'
    BY <2>1, <2>2, <2>3, <2>4, StorageValues DEF KeptInv, AnsweredIsKept, Has
  <2> QED BY <2>1, <2>5 DEF KeptInv
<1>6. CASE Routes
  <2>1. UNCHANGED <<env, file, settings, up>> /\ op.pc = "idle"
    BY <1>6, RouteStep
  <2>2. CASE UNCHANGED <<op, answered>>
    BY <2>1, <2>2 DEF KeptInv, AnsweredIsKept, Has
  <2>3. CASE \E values : Request(values)
    <3>1. PICK values : Request(values)
      BY <2>3
    <3>2. op'.pc = "write" /\ op'.values = values /\ values # Disk
      BY <3>1 DEF Request, Save
    <3>3. /\ DOMAIN answered' = DOMAIN answered \
                 (DOMAIN values \cup IF values = Managed THEN DOMAIN Disk ELSE {})
          /\ \A k \in DOMAIN answered' : answered'[k] = answered[k]
      BY <3>1 DEF Request, Save, Forget
    <3>4. AnsweredIsKept'
      BY <2>1, <3>3 DEF KeptInv, AnsweredIsKept, Has
    <3>5. (DOMAIN answered \cap Pending = {})'
      BY <3>2, <3>3, StorageValues DEF Pending, StorageKeys
    <3> QED BY <3>2, <3>4, <3>5 DEF KeptInv
  <2> QED BY <1>6, <2>2, <2>3, RouteStep
<1>7. CASE Script \/ UNCHANGED vars
  <2>1. UNCHANGED <<env, file, answered>> /\ (UNCHANGED <<settings, op, up>> \/ Exit)
    BY <1>7, ScriptStep DEF vars
  <2>2. CASE UNCHANGED <<settings, op, up>>
    BY <2>1, <2>2 DEF KeptInv, AnsweredIsKept, Has, Pending
  <2>3. CASE Exit
    BY <2>1, <2>3, ExitTypes DEF KeptInv, AnsweredIsKept, Has
  <2> QED BY <2>1, <2>2, <2>3
<1> QED BY <1>1, <1>2, <1>3, <1>4, <1>5, <1>6, <1>7, <1>8 DEF Next, Saving

\* The keys that are saved together stay together: a request brings them all,
\* or those that it leaves out are in the file.
LEMMA FileStep ==
    ASSUME TypeInv, RequestInv, FileIsWhole, KeptInv, SetupInv, [Next]_vars
    PROVE  FileIsWhole'
<1> USE DEF store, disk
<1>1. CASE Replace
  <2>1. file' = Updated(file, op.values) /\ Shaped(op.values)
    BY <1>1 DEF Replace, RequestInv
  <2>2. DOMAIN file' = DOMAIN file \cup DOMAIN op.values
    BY <2>1 DEF Updated
  <2>3. IsValues(file')
    BY <2>1, UpdatedIsValues DEF TypeInv
  <2>4. file' # Torn
    BY <2>3 DEF IsValues, Torn, Keys, Fields
  <2>5. "disk" \in DOMAIN op.values => Has("download_root")
    BY <1>1, <2>1, StorageValues DEF Replace, KeptInv, Shaped, Shapes
  <2> QED BY <2>1, <2>2, <2>4, <2>5 DEF FileIsWhole, Has, Shaped, Shapes
<1>2. CASE UNCHANGED file
  BY <1>2 DEF FileIsWhole, Has
<1>3. Next /\ ~ Replace => UNCHANGED file
  BY RouteStep, ScriptStep
     DEF Next, Boot, Stop, Saving, Write, SaveFails, Apply, WriteMarker, MarkerFails
<1> QED BY <1>1, <1>2, <1>3 DEF vars

LEMMA DiskStep ==
    ASSUME TypeInv, RequestInv, KeptInv, DiskInv, SetupInv, [Next]_vars
    PROVE  DiskInv'
<1> USE DEF store, disk
<1>1. CASE Boot \/ Stop \/ SaveFails
  BY <1>1 DEF Boot, Stop, Exit, SaveFails, Idle, RequestInv, DiskInv, SelectionIsNotLost
<1>2. CASE Write \/ Replace
  <2>1. op'.values = op.values /\ op.pc # "idle"
    BY <1>2 DEF Write, Replace, TypeInv
  <2> QED BY <1>2, <2>1 DEF Write, Replace, DiskInv, SelectionIsNotLost
<1>3. CASE Apply
  <2>1. op.pc = "apply" /\ UNCHANGED <<layout, marker, dotenv, mounted, script>>
    BY <1>3 DEF Apply
  <2>2. CASE op.values \in {Managed, Disk}
    <3>1. answered' = answered /\ layout = "whole"
      BY <1>3, <2>1, <2>2, StorageValues DEF Apply, TypeInv, DiskInv
    <3> QED BY <2>1, <3>1 DEF DiskInv, SelectionIsNotLost
  <2>3. CASE op.values \notin {Managed, Disk}
    <3>1. op'.pc = "idle" /\ answered' = Updated(answered, op.values)
      BY <1>3, <2>3 DEF Apply, Idle
    <3>2. "disk" \notin DOMAIN op.values
      BY <2>1, <2>3 DEF RequestInv, Shaped, Shapes
    <3>3. "disk" \in DOMAIN answered' => "disk" \in DOMAIN answered
      BY <3>1, <3>2 DEF Updated
    <3> QED BY <2>1, <3>1, <3>3 DEF DiskInv, SelectionIsNotLost
  <2> QED BY <2>2, <2>3
<1>4. CASE WriteMarker
  <2>1. op.values = Disk /\ layout = "whole"
    BY <1>4 DEF WriteMarker, RequestInv, DiskInv
  <2> QED BY <1>4, <2>1 DEF WriteMarker, Idle, DiskInv, SelectionIsNotLost
<1>5. CASE MarkerFails
  <2>1. "disk" \notin DOMAIN answered
    BY <1>5 DEF MarkerFails, RequestInv, KeptInv, Pending, StorageKeys
  <2> QED BY <1>5, <2>1 DEF MarkerFails, Idle, DiskInv, SelectionIsNotLost
<1>6. CASE Routes
  <2>1. UNCHANGED <<marker, dotenv, mounted, script>> /\ op.pc = "idle"
    BY <1>6, RouteStep
  <2>2. CASE UNCHANGED <<op, answered>> /\ (layout = "whole" => layout' = layout)
    BY <2>1, <2>2 DEF DiskInv, SelectionIsNotLost
  <2>3. CASE \E values : Request(values)
    <3>1. PICK values : Request(values)
      BY <2>3
    <3>2. /\ op'.values = values /\ values # Disk
          /\ layout' = IF values = Managed THEN "whole" ELSE layout
          /\ "disk" \in DOMAIN answered' => "disk" \in DOMAIN answered
      BY <3>1 DEF Request, Save, Forget
    <3> QED BY <2>1, <3>2 DEF DiskInv, SelectionIsNotLost
  <2> QED BY <1>6, <2>2, <2>3, RouteStep
<1>7. CASE Script
  <2>1. op'.pc # "idle" => op' = op
    BY <1>7, ScriptStep, ExitTypes
  <2>2. UNCHANGED <<answered, layout>>
    BY <1>7, ScriptStep
  <2>3. SelectionIsNotLost'
    BY <1>7, <2>2 DEF Script, ScriptStarts, ScriptMoves, ScriptRemoves, ScriptRecreates,
         ScriptDies, DiskInv, SelectionIsNotLost
  <2>4. /\ script' # "idle" => layout = "whole"
        /\ script' \in {"removing", "recreating"} => dotenv'
    BY <1>7 DEF Script, ScriptStarts, ScriptMoves, ScriptRemoves, ScriptRecreates,
         ScriptDies, DiskInv
  <2> QED BY <2>1, <2>2, <2>3, <2>4 DEF DiskInv
<1>8. CASE UNCHANGED vars
  BY <1>8 DEF vars, DiskInv, SelectionIsNotLost
<1> QED BY <1>1, <1>2, <1>3, <1>4, <1>5, <1>6, <1>7, <1>8 DEF Next, Saving

\* A file that grows does not lose a secret, nor an administrator.
LEMMA GrowingFile ==
    ASSUME TypeInv, IsValues(file'), DOMAIN file \subseteq DOMAIN file', env' = env
    PROVE  /\ \A f \in {"api_id", "api_hash", "key"} :
                 Effective(f) # Default[f] => Effective(f)' # Default[f]
           /\ SetupIsWhole => SetupIsWhole'
<1>1. \A f \in {"api_id", "api_hash", "key"} :
          Effective(f) # Default[f] => Effective(f)' # Default[f]
  BY ValuesAssumption DEF Effective, Has, IsValues
<1> QED BY <1>1 DEF SetupIsWhole, AdminConfigured, Has

LEMMA SetupStep ==
    ASSUME TypeInv, RequestInv, KeptInv, SetupInv, [Next]_vars
    PROVE  SetupInv'
<1> USE DEF store, disk
<1>1. CASE Boot
  <2>1. op'.pc = "idle" /\ UNCHANGED <<env, file>>
    BY <1>1 DEF Boot, RequestInv, TypeInv
  <2>2. \A f \in {"api_id", "api_hash", "key"} :
            settings'[f] # Default[f] => Effective(f)' # Default[f]
    BY <1>1, <2>1 DEF Boot, Effective, Has, Fields
  <2> QED BY <2>1, <2>2
          DEF SetupInv, SetupIsWhole, AdminConfigured, Effective, Usable, Has
<1>2. CASE Stop \/ SaveFails \/ WriteMarker \/ MarkerFails
  <2>1. /\ op'.pc = "idle" /\ UNCHANGED <<env, file>>
        /\ up' => up /\ settings' = settings
    BY <1>2 DEF Stop, Exit, SaveFails, WriteMarker, MarkerFails, Idle
  <2> QED BY <2>1 DEF SetupInv, SetupIsWhole, AdminConfigured, Effective, Usable, Has
<1>3. CASE Replace
  <2>1. op'.values = op.values /\ op.pc # "idle" /\ UNCHANGED <<env, settings, up>>
    BY <1>3 DEF Replace, TypeInv
  <2>2. IsValues(file')
    BY <1>3, UpdatedIsValues DEF Replace, RequestInv, TypeInv
  <2>3. /\ DOMAIN file' = DOMAIN file \cup DOMAIN op.values
        /\ \A k \in DOMAIN op.values : file'[k] = op.values[k]
        /\ \A k \in DOMAIN file \ DOMAIN op.values : file'[k] = file[k]
    BY <1>3 DEF Replace, RequestInv, Updated
  <2>4. SetupIsWhole => SetupIsWhole'
    BY <2>1, <2>2, <2>3, GrowingFile
  <2>5. \A f \in {"api_id", "api_hash", "key"} :
            up' /\ settings'[f] # Default[f] => Effective(f)' # Default[f]
    BY <2>1, <2>2, <2>3, GrowingFile DEF SetupInv
  <2>6. Usable(op.values)'
    BY <2>1, <2>3 DEF SetupInv, Usable, Has
  <2>7. Usable(file)'
    <3>1. CASE "enabled" \in DOMAIN op.values
      BY <2>1, <2>3, <3>1 DEF SetupInv, Usable, Has
    <3>2. CASE "enabled" \notin DOMAIN op.values
      <4>1. "url" \notin DOMAIN op.values
        BY <2>1, <3>2 DEF RequestInv, Shaped, Shapes
      <4> QED BY <2>1, <2>3, <3>2, <4>1 DEF SetupInv, Usable, Has
    <3> QED BY <3>1, <3>2
  <2>8. "completed" \in DOMAIN file' => SetupIsWhole
    BY <2>1, <2>3 DEF SetupInv, Has
  <2> QED BY <2>1, <2>4, <2>5, <2>6, <2>7, <2>8 DEF SetupInv, Has
<1>7. CASE Write
  <2>1. /\ op'.values = op.values /\ op.pc # "idle"
        /\ UNCHANGED <<env, file, settings, up>>
    BY <1>7 DEF Write, TypeInv
  <2> QED BY <2>1 DEF SetupInv, SetupIsWhole, AdminConfigured, Effective, Usable, Has
<1>4. CASE Apply
  <2>1. op.pc = "apply" /\ UNCHANGED <<env, file, up>> /\ settings' = Applied
    BY <1>4 DEF Apply
  <2>2. op'.pc = "idle" \/ op'.values \in {op.values, Disk}
    BY <1>4 DEF Apply, Idle, TypeInv
  <2>3. \A f \in {"api_id", "api_hash", "key"} :
            up /\ settings'[f] # Default[f] => Effective(f) # Default[f]
    <3> SUFFICES ASSUME NEW f \in {"api_id", "api_hash", "key"}, up, settings'[f] # Default[f]
                 PROVE  Effective(f) # Default[f]
        OBVIOUS
    <3>1. CASE f \in DOMAIN op.values \ DOMAIN env
      BY <2>1, <3>1, ValuesAssumption DEF KeptInv, Effective, Has, TypeInv, IsValues
    <3>2. CASE f \notin DOMAIN op.values \ DOMAIN env
      BY <2>1, <3>2 DEF Applied, SetupInv, Fields
    <3> QED BY <3>1, <3>2
  <2>4. op'.pc # "idle" =>
            Usable(op'.values) /\ ("completed" \in DOMAIN op'.values => SetupIsWhole)
    BY <2>1, <2>2, StorageValues DEF SetupInv, Usable
  <2> QED BY <2>1, <2>3, <2>4
          DEF SetupInv, SetupIsWhole, AdminConfigured, Effective, Usable, Has
<1>5. CASE Routes
  <2>1. UNCHANGED <<env, file, settings, up>> /\ op.pc = "idle"
    BY <1>5, RouteStep
  <2>2. op'.pc # "idle" =>
            Usable(op'.values) /\ ("completed" \in DOMAIN op'.values => SetupIsWhole)
    <3>1. CASE UNCHANGED <<op, answered>>
      BY <2>1, <3>1
    <3>2. CASE \E values : Request(values)
      <4>1. PICK values : Request(values)
        BY <3>2
      <4>2. op'.values = values
        BY <4>1 DEF Request, Save
      <4> QED BY <4>1, <4>2 DEF Request
    <3> QED BY <1>5, <3>1, <3>2, RouteStep
  <2> QED BY <2>1, <2>2
          DEF SetupInv, SetupIsWhole, AdminConfigured, Effective, Usable, Has
<1>6. CASE Script \/ UNCHANGED vars
  <2>1. UNCHANGED <<env, file>> /\ (UNCHANGED <<settings, op, up>> \/ Exit)
    BY <1>6, ScriptStep DEF vars
  <2>2. CASE UNCHANGED <<settings, op, up>>
    BY <2>1, <2>2 DEF SetupInv, SetupIsWhole, AdminConfigured, Effective, Usable, Has
  <2>3. CASE Exit
    BY <2>1, <2>3, ExitTypes DEF SetupInv, SetupIsWhole, AdminConfigured, Effective, Usable, Has
  <2> QED BY <2>1, <2>2, <2>3
<1> QED BY <1>1, <1>2, <1>3, <1>4, <1>5, <1>6, <1>7 DEF Next, Saving

-----------------------------------------------------------------------------
(* Every reachable state of every behaviour satisfies the invariant.       *)
THEOREM ConfigurationInvariant == Spec => []ConfigurationInv
<1>1. ConfigurationInv /\ [Next]_vars => ConfigurationInv'
  BY TypeStep, RequestStep, EnvironmentStep, FileStep, KeptStep, DiskStep, SetupStep
     DEF ConfigurationInv
<1> QED BY <1>1, InitConfiguration, PTL DEF Spec

(* Whatever the deployment configures, the values keep their types.        *)
THEOREM TypeCorrect == Spec => []TypeOK
<1>1. ConfigurationInv => TypeOK
  <2> SUFFICES ASSUME ConfigurationInv PROVE TypeOK
      OBVIOUS
  <2>1. {up, checking, dotenv, mounted} \subseteq BOOLEAN
    BY DEF ConfigurationInv, TypeInv
  <2> QED BY <2>1 DEF ConfigurationInv, TypeInv, IsValues, TypeOK, Partial
<1> QED BY <1>1, ConfigurationInvariant, PTL

(* Though the temporary file holds half of the values while it is written, *)
(* no error and no kill in the middle of a save leaves a file that the     *)
(* next start cannot read, or half of what is saved together.              *)
THEOREM SavesAreAtomic == Spec => []FileIsWhole
<1>1. ConfigurationInv => FileIsWhole
  BY DEF ConfigurationInv
<1> QED BY <1>1, ConfigurationInvariant, PTL

(* What the dashboard has answered to be saved stays in the file and in    *)
(* use, whatever is saved, refused or interrupted later.                   *)
THEOREM AnswersAreKept == Spec => []AnsweredIsKept
<1>1. ConfigurationInv => AnsweredIsKept
  BY DEF ConfigurationInv, KeptInv
<1> QED BY <1>1, ConfigurationInvariant, PTL

(* A value of the environment is what the running process uses.            *)
THEOREM EnvironmentIsObeyed == Spec => []EnvironmentWins
<1>1. ConfigurationInv => EnvironmentWins
  BY DEF ConfigurationInv
<1> QED BY <1>1, ConfigurationInvariant, PTL

(* A completed setup keeps its administrator and its credentials.          *)
THEOREM CompletedSetupStaysWhole == Spec => []CompletedSetupIsWhole
<1>1. ConfigurationInv => CompletedSetupIsWhole
  BY DEF ConfigurationInv, SetupInv, SetupIsWhole, CompletedSetupIsWhole
<1> QED BY <1>1, ConfigurationInvariant, PTL

(* No sequence of partial saves lets a start find Jellyfin enabled without *)
(* its URL or its key.                                                     *)
THEOREM JellyfinIsUsable == Spec => []EnabledJellyfinIsUsable
<1>1. ConfigurationInv => EnabledJellyfinIsUsable
  <2> SUFFICES ASSUME ConfigurationInv, "enabled" \notin DOMAIN env, Effective("enabled"),
                      NEW f \in {"url", "key"} \ DOMAIN env
               PROVE  Effective(f) # Default[f]
      BY DEF EnabledJellyfinIsUsable
  <2>1. "enabled" \in DOMAIN file /\ file["enabled"] = TRUE
    BY ValuesAssumption DEF Effective, Has, ConfigurationInv, TypeInv, IsValues
  <2>2. /\ "url" \in DOMAIN file /\ file["url"] # Default["url"]
        /\ "key" \in DOMAIN env \/ "key" \in DOMAIN file
    BY <2>1 DEF ConfigurationInv, SetupInv, Usable, Has
  <2>3. "key" \in DOMAIN file => file["key"] # Default["key"]
    BY ValuesAssumption DEF ConfigurationInv, TypeInv, IsValues
  <2> QED BY <2>2, <2>3 DEF Effective, Has
<1> QED BY <1>1, ConfigurationInvariant, PTL

(* The selection of a disk is not lost between the dashboard and the       *)
(* script, nor does either name a disk that was not prepared.              *)
THEOREM SelectionIsKept == Spec => []SelectionIsNotLost
<1>1. ConfigurationInv => SelectionIsNotLost
  BY DEF ConfigurationInv, DiskInv
<1> QED BY <1>1, ConfigurationInvariant, PTL
=============================================================================
