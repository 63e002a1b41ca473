-------------------------------- MODULE Form --------------------------------
(***************************************************************************)
(* The settings form of client/internal/ui/settings_tab.go and             *)
(* models_tab.go over the settings of client/internal/config: the widgets  *)
(* are filled once, at the launch, and read back at every Save, while the  *)
(* main tab changes the language, microphones come and go, and a model     *)
(* that was downloaded moves the model directory.                          *)
(*                                                                         *)
(* A directory is named for a family of models and a conversion of it; the *)
(* conversion that belongs to a backend is the one with its weights.  Of   *)
(* the text fields the model keeps the server address, the model directory *)
(* and the two local ports; the others are read and written like them.     *)
(***************************************************************************)
EXTENDS Naturals, FiniteSets

CONSTANTS
    Language,      \* protocol.Language
    Backends,      \* those this machine supports, "cpu" among them
    Families,      \* of models
    Microphones,   \* the devices that may be plugged in
    Available,     \* hotkey.AvailableModifiers
    Shortcuts,     \* the shortcuts that may be chosen: modifiers and key
    Initial,       \* the settings files there may be
    MaxSteps       \* bound on what the user does

Directories == [family : Families, conversion : Backends]
NoDirectory == [family |-> "", conversion |-> ""]
SystemDefault == "default"
\* What a port field may hold.
PortTexts == {"", "1", "2", "word"}
\* config.Settings
Settings == [mode : {"local", "remote"}, host : {"", "host"}, language : Language,
             backend : Backends \cup {""}, model : Directories \cup {NoDirectory},
             ports : [Language -> 0 .. 2], device : Microphones \cup {SystemDefault},
             hotkey : Shortcuts]

ASSUME MachineAssumption == "cpu" \in Backends /\ "" \notin Backends /\ Families # {}
ASSUME ShortcutsAssumption == \A s \in Shortcuts : s = [modifiers |-> s.modifiers, key |-> s.key]
ASSUME InitialAssumption == Initial \subseteq Settings

VARIABLES
    settings,  \* a.settings, and the settings file, which is written first
    form,      \* the widgets
    devices,   \* s.devices
    plugged,   \* the microphones the machine has
    disk,      \* what each directory holds: "absent", "bare" or a conversion
    note,      \* what s.backendNote says is wrong
    install,   \* the download under way
    edited,    \* history: the fields the user changed since the form was filled or saved
    steps

vars == <<settings, form, devices, plugged, disk, note, install, edited, steps>>

Normalise(backend) == IF backend = "" THEN "cpu" ELSE backend

PortText(port) == CASE port = 0 -> "" [] port = 1 -> "1" [] port = 2 -> "2"
ParsePort(text) == CASE text = "1" -> 1 [] text = "2" -> 2 [] OTHER -> 0

-----------------------------------------------------------------------------
(* Filling the form.                                                        *)

\* The device the settings name, or the first of the list.
Shown(list, saved) == IF saved \in list THEN saved ELSE SystemDefault

\* One checkbox for each modifier of the platform.
Checked(hotkey) == [hotkey EXCEPT !.modifiers = @ \cap Available]

BuiltFrom(s, list) ==
    [mode |-> s.mode, host |-> s.host, model |-> s.model,
     backend |-> Normalise(s.backend),
     ports |-> [l \in Language |-> PortText(s.ports[l])],
     device |-> Shown(list, s.device),
     hotkey |-> Checked(s.hotkey)]

\* The right conversion beside the wrong one.
Sibling(backend, directory) == [directory EXCEPT !.conversion = backend]

\* Nothing is said of a directory that is not there yet.
ModelProblem(backend, model) ==
    IF model = NoDirectory THEN "none"
    ELSE IF disk[model] \in {"absent", backend} THEN "none"
    ELSE IF Sibling(backend, model) # model /\ disk[Sibling(backend, model)] = backend
         THEN "sibling" ELSE "unreadable"

Noted(f) == ModelProblem(f.backend, f.model)

Idle == [at |-> "none", model |-> CHOOSE d \in Directories : TRUE]

Init ==
    /\ settings \in Initial
    /\ plugged \in SUBSET Microphones
    /\ disk \in [Directories -> {"absent", "bare"} \cup Backends]
    /\ \A d \in Directories : disk[d] \in {"absent", "bare", d.conversion}
    /\ devices = plugged \cup {SystemDefault}
    /\ form = BuiltFrom(settings, devices)
    /\ note = Noted(form)
    /\ install = Idle
    /\ edited = {}
    /\ steps = 0

\* Something the user does.
Step == steps < MaxSteps /\ steps' = steps + 1

\* LoadFrom and newSettingsTab in a new process; a download does not survive.
Relaunch ==
    /\ Step
    /\ devices' = plugged \cup {SystemDefault}
    /\ form' = BuiltFrom(settings, devices')
    /\ note' = Noted(form')
    /\ install' = Idle
    /\ edited' = {}
    /\ UNCHANGED <<settings, plugged, disk>>

-----------------------------------------------------------------------------
(* Editing it.                                                              *)

\* Mutant: the note follows the backend only.
NoteStays(f) == note' = IF f.backend = form.backend THEN note ELSE Noted(f)
\* onBackendChanged runs on a change of the radio and of the directory.
NoteFollows(f) == note' = Noted(f)

Becomes(f, fields) ==
    /\ form' = f
    /\ NoteFollows(f)
    /\ edited' = edited \cup fields

Edit ==
    /\ Step
    /\ \/ \E mode \in {"local", "remote"} : Becomes([form EXCEPT !.mode = mode], {"mode"})
       \/ \E host \in {"", "host"} : Becomes([form EXCEPT !.host = host], {"host"})
       \/ \E d \in Directories \cup {NoDirectory} :
             Becomes([form EXCEPT !.model = d], {"model"})
       \/ \E b \in Backends : Becomes([form EXCEPT !.backend = b], {"backend"})
       \/ \E l \in Language, text \in PortTexts :
             Becomes([form EXCEPT !.ports[l] = text], {"ports"})
       \/ \E shortcut \in Shortcuts :
             /\ shortcut.modifiers \subseteq Available
             /\ Becomes([form EXCEPT !.hotkey = shortcut], {"hotkey"})
       \/ \E device \in devices : Becomes([form EXCEPT !.device = device], {"device"})
    /\ UNCHANGED <<settings, devices, plugged, disk, install>>

PlugsChange ==
    /\ Step
    /\ plugged' \in SUBSET Microphones
    /\ plugged' # plugged
    /\ UNCHANGED <<settings, form, devices, disk, note, install, edited>>

(***************************************************************************)
(* The choice starts over from the settings in force.  A list that could   *)
(* not be read is empty, and SetSelected ignores a name that is not on it. *)
(***************************************************************************)
RefreshDevices ==
    /\ Step
    /\ \/ /\ devices' = plugged \cup {SystemDefault}
          /\ form' = [form EXCEPT !.device = Shown(devices', settings.device)]
          /\ edited' = edited \ {"device"}
       \/ /\ devices' = {}
          /\ UNCHANGED <<form, edited>>
    /\ UNCHANGED <<settings, plugged, disk, note, install>>

-----------------------------------------------------------------------------
(* ApplySettings.                                                           *)

Apart(ports) == \A k, l \in Language : k # l /\ ports[k] = ports[l] => ports[k] = 0

\* Config.Validate
Valid(s) ==
    /\ s.mode = "remote" => s.host # ""
    /\ s.mode = "local" => s.model # NoDirectory /\ Apart(s.ports)

\* Mutant: onto the settings the form was filled from.
CollectStale(s) ==
    [s EXCEPT !.mode = form.mode, !.host = form.host, !.model = form.model,
              !.backend = form.backend,
              !.ports = [l \in Language |-> ParsePort(form.ports[l])],
              !.device = form.device, !.hotkey = form.hotkey,
              !.language = CHOOSE l \in Language : TRUE]

Collect(s) ==
    [s EXCEPT !.mode = form.mode, !.host = form.host, !.model = form.model,
              !.backend = form.backend,
              !.ports = [l \in Language |-> ParsePort(form.ports[l])],
              !.device = IF form.device \in devices THEN form.device ELSE SystemDefault,
              !.hotkey = form.hotkey]

\* Servers that do not stop change nothing here: the settings are in force by then.
ApplySettings(s) == IF Valid(s) THEN settings' = s ELSE UNCHANGED settings

OnSave ==
    /\ Step
    /\ ApplySettings(Collect(settings))
    /\ edited' = IF Valid(Collect(settings)) THEN {} ELSE edited
    /\ UNCHANGED <<form, devices, plugged, disk, note, install>>

OnLanguageChanged ==
    /\ Step
    /\ \E l \in Language : ApplySettings([settings EXCEPT !.language = l])
    /\ UNCHANGED <<form, devices, plugged, disk, note, install, edited>>

-----------------------------------------------------------------------------
(* Downloading a model, into the parent of the model directory.             *)

OnInstallModel ==
    /\ Step
    /\ install.at = "none"
    /\ \E model \in Directories : install' = [at |-> "fetching", model |-> model]
    /\ UNCHANGED <<settings, form, devices, plugged, disk, note, edited>>

Fetched ==
    /\ install.at = "fetching"
    /\ install' = [install EXCEPT !.at = "fetched"]
    /\ disk' = [disk EXCEPT ![install.model] = install.model.conversion]
    /\ UNCHANGED <<settings, form, devices, plugged, note, edited, steps>>

\* The list is shown again and the note stays.
FetchFails ==
    /\ install.at = "fetching"
    /\ install' = Idle
    /\ UNCHANGED <<settings, form, devices, plugged, disk, note, edited, steps>>

Readable(backend, model) == model # NoDirectory /\ disk[model] = backend

\* Mutant: unless the field names a directory.
AdoptsIfEmpty(model) == model.conversion = form.backend /\ form.model = NoDirectory
\* adoptModel moves the field only if the chosen backend can read the new directory and
\* not the old.
Adopts(model) == model.conversion = form.backend /\ ~Readable(form.backend, form.model)

FinishInstall ==
    /\ install.at = "fetched"
    /\ Becomes(IF Adopts(install.model) THEN [form EXCEPT !.model = install.model] ELSE form,
               IF Adopts(install.model) THEN {"model"} ELSE {})
    /\ install' = Idle
    /\ UNCHANGED <<settings, devices, plugged, disk, steps>>

Next ==
    \/ Relaunch \/ Edit \/ PlugsChange \/ RefreshDevices \/ OnSave \/ OnLanguageChanged
    \/ OnInstallModel \/ Fetched \/ FetchFails \/ FinishInstall

Spec == Init /\ [][Next]_vars

-----------------------------------------------------------------------------
(***************************************************************************)
(* A Save stores what the form shows and nothing else: a launch would fill *)
(* the form with the same again, text that is no number apart; and a field *)
(* nobody touched keeps its value, whatever happened in the main tab, the  *)
(* models tab or to the microphones since.  A modifier of another platform *)
(* has no checkbox.  settings_tab.go: build*, collect.                     *)
(***************************************************************************)
Numeric == \A l \in Language : form.ports[l] # "word"
Untouched == ({"mode", "host", "model", "ports"} \ edited)
             \cup (IF settings.hotkey.modifiers \subseteq Available THEN {"hotkey"} \ edited ELSE {})

SaveStoresTheForm ==
    [][ edited # {} /\ edited' = {} /\ UNCHANGED <<form, devices>> =>
          /\ Numeric /\ form.device \in devices => BuiltFrom(settings', devices) = form
          /\ \A field \in Untouched : settings'[field] = settings[field]
          /\ settings'.language = settings.language ]_vars

(***************************************************************************)
(* What the form says is wrong with the model directory is true of the     *)
(* backend and the directory it shows, and of the disk once the end of a   *)
(* download was handled ("a note that only tracked one of them would go    *)
(* stale the moment the other moved", settings_tab.go:264).                *)
(***************************************************************************)
NoteIsCurrent == install.at # "fetched" => note = Noted(form)

(***************************************************************************)
(* When a model for the chosen backend was downloaded, the form names a    *)
(* directory that backend can read, whatever was chosen and typed while it *)
(* was coming.  models_tab.go: finishInstall, adoptModel.                  *)
(***************************************************************************)
DownloadedModelIsUsable ==
    [][ /\ install.at = "fetched" /\ install' = Idle /\ UNCHANGED steps
        /\ install.model.conversion = form.backend
        => Readable(form'.backend, form'.model) ]_vars

(***************************************************************************)
(* docs/client-usage.md:304, "Choosing a specific device pins it; if that  *)
(* device is later unplugged, dictation reports it rather than silently    *)
(* recording from something else": a Save for another reason does not      *)
(* change the microphone.                                                  *)
(***************************************************************************)
PinnedMicrophoneStays ==
    [][ settings'.device # settings.device => "device" \in edited ]_vars
=============================================================================
