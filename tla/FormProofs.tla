----------------------------- MODULE FormProofs -----------------------------
(***************************************************************************)
(* What the form says and what a Save stores, for any settings file, set   *)
(* of backends and models, and any number of edits.                        *)
(***************************************************************************)
EXTENDS Form, TLAPS

Places == Directories \cup {NoDirectory}
Chord == [modifiers : SUBSET Available, key : {s.key : s \in Shortcuts}]
Widgets == [mode : {"local", "remote"}, host : {"", "host"}, model : Places,
            backend : Backends, ports : [Language -> PortTexts],
            device : Microphones \cup {SystemDefault}, hotkey : Chord]
Stored == [mode : {"local", "remote"}, host : {"", "host"}, language : Language,
           backend : Backends \cup {""}, model : Places, ports : [Language -> 0 .. 2],
           device : Microphones \cup {SystemDefault}, hotkey : Shortcuts \cup Chord]
Downloads == [at : {"none", "fetching", "fetched"}, model : Directories]

(* Types of the state: settings_tab.go, models_tab.go and config.go.        *)
TypeOK ==
    /\ settings \in Stored
    /\ form \in Widgets
    /\ devices \subseteq Microphones \cup {SystemDefault}
    /\ plugged \subseteq Microphones
    /\ disk \in [Directories -> {"absent", "bare"} \cup Backends]
    /\ install \in Downloads
    /\ steps \in Nat

\* A field nobody touched shows the settings in force, as a Save would read it.
FieldsShown ==
    /\ "mode" \notin edited => form.mode = settings.mode
    /\ "host" \notin edited => form.host = settings.host
    /\ "model" \notin edited => form.model = settings.model
    /\ "backend" \notin edited => form.backend = Normalise(settings.backend)
    /\ "ports" \notin edited => \A l \in Language : settings.ports[l] = ParsePort(form.ports[l])
    /\ "hotkey" \notin edited => form.hotkey = Checked(settings.hotkey)

\* What was downloaded is there.
ModelLanded == install.at = "fetched" => disk[install.model] = install.model.conversion

IInv == TypeOK /\ FieldsShown /\ ModelLanded /\ NoteIsCurrent

-----------------------------------------------------------------------------
(* Filling the form and reading it.                                         *)

LEMMA PortsRoundTrip ==
  /\ \A text \in PortTexts : ParsePort(text) \in 0 .. 2
                             /\ (text # "word" => PortText(ParsePort(text)) = text)
  /\ \A port \in 0 .. 2 : PortText(port) \in PortTexts /\ ParsePort(PortText(port)) = port
<1>1. ParsePort("1") = 1 /\ ParsePort("2") = 2 /\ ParsePort("") = 0 /\ ParsePort("word") = 0
  BY DEF ParsePort
<1>2. PortText(0) = "" /\ PortText(1) = "1" /\ PortText(2) = "2"
  BY DEF PortText
<1>3. 0 .. 2 = {0, 1, 2}
  OBVIOUS
<1>4. QED
  BY <1>1, <1>2, <1>3 DEF PortTexts

LEMMA Checkboxes == ASSUME NEW h \in Shortcuts \cup Chord
  PROVE /\ Checked(h) \in Chord
        /\ h.modifiers \subseteq Available => Checked(h) = h
<1>1. h = [modifiers |-> h.modifiers, key |-> h.key]
  BY ShortcutsAssumption DEF Chord
<1>2. h.key \in {s.key : s \in Shortcuts}
  BY DEF Chord
<1>3. Checked(h) = [modifiers |-> h.modifiers \cap Available, key |-> h.key]
  BY <1>1 DEF Checked
<1>4. QED
  BY <1>1, <1>2, <1>3 DEF Chord

LEMMA BuiltFields == ASSUME NEW s \in Stored, NEW list
  PROVE  LET f == BuiltFrom(s, list) IN
         /\ f.mode = s.mode /\ f.host = s.host /\ f.model = s.model
         /\ f.backend = Normalise(s.backend)
         /\ \A l \in Language : s.ports[l] = ParsePort(f.ports[l])
         /\ f.device = Shown(list, s.device)
         /\ f.hotkey = Checked(s.hotkey)
<1> DEFINE f == BuiltFrom(s, list)
<1>1. f.ports = [l \in Language |-> PortText(s.ports[l])]
  BY DEF BuiltFrom
<1>2. \A l \in Language : s.ports[l] = ParsePort(f.ports[l])
  BY <1>1, PortsRoundTrip DEF Stored
<1>3. QED
  BY <1>2 DEF BuiltFrom

LEMMA BuiltIsTyped ==
  ASSUME NEW s \in Stored, NEW list \in SUBSET (Microphones \cup {SystemDefault})
  PROVE  BuiltFrom(s, list) \in Widgets
<1>1. s.hotkey \in Shortcuts \cup Chord /\ s.backend \in Backends \cup {""}
      /\ s.mode \in {"local", "remote"} /\ s.host \in {"", "host"} /\ s.model \in Places
      /\ s.ports \in [Language -> 0 .. 2]
  BY DEF Stored
<1>2. Checked(s.hotkey) \in Chord
  BY <1>1, Checkboxes
<1>3. Normalise(s.backend) \in Backends
  BY <1>1, MachineAssumption DEF Normalise
<1>4. [l \in Language |-> PortText(s.ports[l])] \in [Language -> PortTexts]
  BY <1>1, PortsRoundTrip
<1>5. Shown(list, s.device) \in Microphones \cup {SystemDefault}
  BY DEF Shown
<1>6. QED
  BY <1>1, <1>2, <1>3, <1>4, <1>5, Zenon DEF BuiltFrom, Widgets

LEMMA StoredFields == ASSUME NEW s \in Stored
  PROVE  /\ \A mode \in {"local", "remote"} : [s EXCEPT !.mode = mode] \in Stored
         /\ \A host \in {"", "host"} : [s EXCEPT !.host = host] \in Stored
         /\ \A language \in Language : [s EXCEPT !.language = language] \in Stored
         /\ \A backend \in Backends \cup {""} : [s EXCEPT !.backend = backend] \in Stored
         /\ \A model \in Places : [s EXCEPT !.model = model] \in Stored
         /\ \A ports \in [Language -> 0 .. 2] : [s EXCEPT !.ports = ports] \in Stored
         /\ \A device \in Microphones \cup {SystemDefault} : [s EXCEPT !.device = device] \in Stored
         /\ \A hotkey \in Shortcuts \cup Chord : [s EXCEPT !.hotkey = hotkey] \in Stored
BY DEF Stored

LEMMA CollectFields == ASSUME TypeOK
  PROVE  LET c == Collect(settings) IN
         /\ c.mode = form.mode /\ c.host = form.host /\ c.model = form.model
         /\ c.backend = form.backend /\ c.hotkey = form.hotkey
         /\ c.language = settings.language
         /\ c.ports = [l \in Language |-> ParsePort(form.ports[l])]
         /\ c.device = IF form.device \in devices THEN form.device ELSE SystemDefault
         /\ c \in Stored
<1> DEFINE ports == [l \in Language |-> ParsePort(form.ports[l])]
           device == IF form.device \in devices THEN form.device ELSE SystemDefault
<1>1. /\ form.mode \in {"local", "remote"} /\ form.host \in {"", "host"}
      /\ form.backend \in Backends \cup {""} /\ form.model \in Places
      /\ form.ports \in [Language -> PortTexts] /\ form.device \in Microphones \cup {SystemDefault}
      /\ form.hotkey \in Shortcuts \cup Chord
  BY DEF TypeOK, Widgets
<1>2. ports \in [Language -> 0 .. 2]
  BY <1>1, PortsRoundTrip
<1>3. device \in Microphones \cup {SystemDefault}
  BY <1>1
<1> DEFINE moded == [settings EXCEPT !.mode = form.mode]
<1>4. moded \in Stored
  BY <1>1 DEF TypeOK, Stored
<1> DEFINE hosted == [moded EXCEPT !.host = form.host]
<1>5. hosted \in Stored
  BY <1>1, <1>4, StoredFields
<1> DEFINE modelled == [hosted EXCEPT !.model = form.model]
<1>6. modelled \in Stored
  BY <1>1, <1>5, StoredFields
<1> DEFINE backed == [modelled EXCEPT !.backend = form.backend]
<1>7. backed \in Stored
  BY <1>1, <1>6, StoredFields
<1> DEFINE ported == [backed EXCEPT !.ports = ports]
<1>8. ported \in Stored
  BY <1>2, <1>7, StoredFields
<1> DEFINE miked == [ported EXCEPT !.device = device]
<1>9. miked \in Stored
  BY <1>3, <1>8, StoredFields
<1>10. [miked EXCEPT !.hotkey = form.hotkey] \in Stored
  BY <1>1, <1>9, StoredFields
<1>11. Collect(settings) \in Stored
  BY <1>10 DEF Collect
<1> HIDE DEF moded, hosted, modelled, backed, ported, miked
<1>12. /\ Collect(settings).mode = form.mode /\ Collect(settings).host = form.host
       /\ Collect(settings).model = form.model /\ Collect(settings).backend = form.backend
       /\ Collect(settings).hotkey = form.hotkey /\ Collect(settings).ports = ports
       /\ Collect(settings).device = device
       /\ Collect(settings).language = settings.language
  BY DEF Collect, TypeOK, Stored
<1>13. QED
  BY <1>11, <1>12

-----------------------------------------------------------------------------
LEMMA IdleIsTyped == Idle \in Downloads
<1>1. PICK family \in Families : [family |-> family, conversion |-> "cpu"] \in Directories
  BY MachineAssumption DEF Directories
<1>2. QED
  BY <1>1 DEF Idle, Downloads

LEMMA InitHolds == ASSUME Init PROVE IInv
<1>1. settings \in Stored
  BY InitialAssumption DEF Init, Settings, Stored, Places
<1>2. devices \subseteq Microphones \cup {SystemDefault} /\ plugged \subseteq Microphones
  BY DEF Init
<1>3. form \in Widgets
  BY <1>1, <1>2, BuiltIsTyped DEF Init
<1>4. install \in Downloads /\ install.at = "none"
  BY IdleIsTyped DEF Init, Idle
<1>5. FieldsShown
  BY <1>1, BuiltFields DEF Init, FieldsShown
<1>6. QED
  BY <1>1, <1>2, <1>3, <1>4, <1>5 DEF Init, IInv, TypeOK, ModelLanded, NoteIsCurrent

LEMMA WidgetFields == ASSUME NEW f \in Widgets
  PROVE  /\ \A mode \in {"local", "remote"} : [f EXCEPT !.mode = mode] \in Widgets
         /\ \A host \in {"", "host"} : [f EXCEPT !.host = host] \in Widgets
         /\ \A backend \in Backends : [f EXCEPT !.backend = backend] \in Widgets
         /\ \A model \in Places : [f EXCEPT !.model = model] \in Widgets
         /\ \A l \in Language, text \in PortTexts : [f EXCEPT !.ports[l] = text] \in Widgets
         /\ \A device \in Microphones \cup {SystemDefault} : [f EXCEPT !.device = device] \in Widgets
         /\ \A hotkey \in Chord : [f EXCEPT !.hotkey = hotkey] \in Widgets
BY DEF Widgets

\* An edit changes one field, to something the form may hold, and marks it.
LEMMA EditsOneField == ASSUME TypeOK, Edit
  PROVE  /\ UNCHANGED <<settings, devices, plugged, disk, install>>
         /\ \E f \in Widgets, field \in {"mode", "host", "model", "backend", "ports", "hotkey", "device"} :
              /\ Becomes(f, {field})
              /\ field # "mode" => f.mode = form.mode
              /\ field # "host" => f.host = form.host
              /\ field # "model" => f.model = form.model
              /\ field # "backend" => f.backend = form.backend
              /\ field # "ports" => f.ports = form.ports
              /\ field # "hotkey" => f.hotkey = form.hotkey
<1> DEFINE one(f, field) ==
              /\ f \in Widgets
              /\ Becomes(f, {field})
              /\ field # "mode" => f.mode = form.mode
              /\ field # "host" => f.host = form.host
              /\ field # "model" => f.model = form.model
              /\ field # "backend" => f.backend = form.backend
              /\ field # "ports" => f.ports = form.ports
              /\ field # "hotkey" => f.hotkey = form.hotkey
<1>1. form \in Widgets
  BY DEF TypeOK
<1>2. ASSUME NEW mode \in {"local", "remote"}, Becomes([form EXCEPT !.mode = mode], {"mode"})
      PROVE  one([form EXCEPT !.mode = mode], "mode")
  BY <1>1, <1>2, WidgetFields DEF Widgets
<1>3. ASSUME NEW host \in {"", "host"}, Becomes([form EXCEPT !.host = host], {"host"})
      PROVE  one([form EXCEPT !.host = host], "host")
  BY <1>1, <1>3, WidgetFields DEF Widgets
<1>4. ASSUME NEW d \in Places, Becomes([form EXCEPT !.model = d], {"model"})
      PROVE  one([form EXCEPT !.model = d], "model")
  BY <1>1, <1>4, WidgetFields DEF Widgets
<1>5. ASSUME NEW b \in Backends, Becomes([form EXCEPT !.backend = b], {"backend"})
      PROVE  one([form EXCEPT !.backend = b], "backend")
  BY <1>1, <1>5, WidgetFields DEF Widgets
<1>6. ASSUME NEW l \in Language, NEW text \in PortTexts,
             Becomes([form EXCEPT !.ports[l] = text], {"ports"})
      PROVE  one([form EXCEPT !.ports[l] = text], "ports")
  BY <1>1, <1>6, WidgetFields DEF Widgets
<1>7. ASSUME NEW shortcut \in Shortcuts, shortcut.modifiers \subseteq Available,
             Becomes([form EXCEPT !.hotkey = shortcut], {"hotkey"})
      PROVE  one([form EXCEPT !.hotkey = shortcut], "hotkey")
  <2>1. shortcut \in Chord
    BY <1>7, ShortcutsAssumption DEF Chord
  <2>2. QED
    BY <1>1, <1>7, <2>1, WidgetFields DEF Widgets
<1>8. ASSUME NEW device \in devices, Becomes([form EXCEPT !.device = device], {"device"})
      PROVE  one([form EXCEPT !.device = device], "device")
  <2>1. device \in Microphones \cup {SystemDefault}
    BY DEF TypeOK
  <2>2. QED
    BY <1>1, <1>8, <2>1, WidgetFields DEF Widgets
<1> DEFINE all == {"mode", "host", "model", "backend", "ports", "hotkey", "device"}
<1> HIDE DEF one
<1>9. \E f, field : field \in all /\ one(f, field)
  BY <1>2, <1>3, <1>4, <1>5, <1>6, <1>7, <1>8 DEF Edit, Places
<1>10. QED
  BY <1>9 DEF Edit, one

\* What a Save or the language menu puts in force.
LEMMA SavesStored == ASSUME TypeOK, OnSave
  PROVE  settings' = settings \/ settings' = Collect(settings)
BY DEF OnSave, ApplySettings

LEMMA LanguageStored == ASSUME TypeOK, OnLanguageChanged
  PROVE  settings' = settings
         \/ \E l \in Language : settings' = [settings EXCEPT !.language = l]
BY DEF OnLanguageChanged, ApplySettings

LEMMA TypesStay == ASSUME TypeOK, [Next]_vars PROVE TypeOK'
<1> USE DEF TypeOK
<1>steps. steps' \in Nat
  <2>1. steps' = steps \/ steps' = steps + 1
    BY DEF Next, vars, Step, Relaunch, Edit, PlugsChange, RefreshDevices, OnSave,
           OnLanguageChanged, OnInstallModel, Fetched, FetchFails, FinishInstall
  <2>2. QED
    BY <2>1
<1>1. CASE Relaunch
  BY <1>steps, <1>1, BuiltIsTyped, IdleIsTyped DEF Relaunch
<1>2. CASE Edit
  BY <1>steps, <1>2, EditsOneField DEF Becomes
<1>3. CASE PlugsChange
  BY <1>steps, <1>3 DEF PlugsChange
<1>4. CASE RefreshDevices
  <2>1. devices' \subseteq Microphones \cup {SystemDefault}
    BY <1>steps, <1>4 DEF RefreshDevices
  <2>2. Shown(devices', settings.device) \in Microphones \cup {SystemDefault}
    BY <2>1 DEF Shown
  <2>3. form' \in Widgets
    BY <1>steps, <1>4, <2>2, WidgetFields DEF RefreshDevices
  <2>4. QED
    BY <1>steps, <1>4, <2>1, <2>3 DEF RefreshDevices
<1>5. CASE OnSave
  BY <1>steps, <1>5, SavesStored, CollectFields DEF OnSave
<1>6. CASE OnLanguageChanged
  BY <1>steps, <1>6, LanguageStored, StoredFields DEF OnLanguageChanged
<1>7. CASE OnInstallModel
  BY <1>steps, <1>7 DEF OnInstallModel, Downloads
<1>8. CASE Fetched
  <2>1. install.model \in Directories /\ install.model.conversion \in Backends
    BY DEF Downloads, Directories
  <2>2. disk' \in [Directories -> {"absent", "bare"} \cup Backends]
    BY <1>steps, <1>8, <2>1 DEF Fetched
  <2>3. install' \in Downloads
    BY <1>steps, <1>8 DEF Fetched, Downloads
  <2>4. QED
    BY <1>steps, <1>8, <2>2, <2>3 DEF Fetched
<1>9. CASE FetchFails
  BY <1>steps, <1>9, IdleIsTyped DEF FetchFails
<1>10. CASE FinishInstall
  <2>1. install.model \in Places
    BY DEF Downloads, Places
  <2>2. form' \in Widgets
    BY <1>steps, <1>10, <2>1, WidgetFields DEF FinishInstall, Becomes
  <2>3. QED
    BY <1>steps, <1>10, <2>2, IdleIsTyped DEF FinishInstall
<1>11. CASE UNCHANGED vars
  BY <1>11 DEF vars
<1>12. QED
  BY <1>1, <1>2, <1>3, <1>4, <1>5, <1>6, <1>7, <1>8, <1>9, <1>10, <1>11 DEF Next

\* A Save leaves nothing to show; the other steps change what they mark.
LEMMA FieldsStay == ASSUME TypeOK, FieldsShown, [Next]_vars PROVE FieldsShown'
<1> USE DEF TypeOK
<1>1. CASE Relaunch
  BY <1>1, BuiltFields DEF Relaunch, FieldsShown
<1>2. CASE Edit
  BY <1>2, EditsOneField DEF Becomes, FieldsShown
<1>3. CASE PlugsChange
  BY <1>3 DEF PlugsChange, FieldsShown
<1>4. CASE RefreshDevices
  <2>1. /\ form'.mode = form.mode /\ form'.host = form.host /\ form'.model = form.model
        /\ form'.backend = form.backend /\ form'.ports = form.ports /\ form'.hotkey = form.hotkey
    BY <1>4 DEF RefreshDevices, Widgets
  <2>2. QED
    BY <1>4, <2>1 DEF RefreshDevices, FieldsShown
<1>5. CASE OnSave
  <2>1. CASE Valid(Collect(settings))
    <3>1. settings' = Collect(settings) /\ form' = form
      BY <1>5, <2>1 DEF OnSave, ApplySettings
    <3>2. form.backend \in Backends /\ form.hotkey \in Chord
      BY DEF Widgets
    <3>3. Normalise(form.backend) = form.backend /\ Checked(form.hotkey) = form.hotkey
      BY <3>2, Checkboxes, MachineAssumption DEF Normalise, Chord
    <3>4. QED
      BY <3>1, <3>3, CollectFields DEF FieldsShown
  <2>2. CASE ~Valid(Collect(settings))
    BY <1>5, <2>2 DEF OnSave, ApplySettings, FieldsShown
  <2>3. QED
    BY <2>1, <2>2
<1>6. CASE OnLanguageChanged
  <2>1. /\ settings'.mode = settings.mode /\ settings'.host = settings.host
        /\ settings'.model = settings.model /\ settings'.backend = settings.backend
        /\ settings'.ports = settings.ports /\ settings'.hotkey = settings.hotkey
    BY <1>6, LanguageStored DEF Stored
  <2>2. QED
    BY <1>6, <2>1 DEF OnLanguageChanged, FieldsShown
<1>7. CASE OnInstallModel
  BY <1>7 DEF OnInstallModel, FieldsShown
<1>8. CASE Fetched
  BY <1>8 DEF Fetched, FieldsShown
<1>9. CASE FetchFails
  BY <1>9 DEF FetchFails, FieldsShown
<1>10. CASE FinishInstall
  <2>1. CASE Adopts(install.model)
    <3>1. /\ form' = [form EXCEPT !.model = install.model] /\ edited' = edited \cup {"model"}
          /\ settings' = settings
      BY <1>10, <2>1 DEF FinishInstall, Becomes
    <3>2. QED
      BY <3>1 DEF FieldsShown, Widgets
  <2>2. CASE ~Adopts(install.model)
    BY <1>10, <2>2 DEF FinishInstall, Becomes, FieldsShown
  <2>3. QED
    BY <2>1, <2>2
<1>11. CASE UNCHANGED vars
  BY <1>11 DEF vars, FieldsShown
<1>12. QED
  BY <1>1, <1>2, <1>3, <1>4, <1>5, <1>6, <1>7, <1>8, <1>9, <1>10, <1>11 DEF Next

\* What the note says depends on two widgets and the disk.
LEMMA NoteDepends ==
  ASSUME disk' = disk, form'.backend = form.backend, form'.model = form.model
  PROVE  Noted(form)' = Noted(form)
BY DEF Noted, ModelProblem

LEMMA NoteStaysCurrent == ASSUME IInv, [Next]_vars PROVE ModelLanded' /\ NoteIsCurrent'
<1> USE DEF IInv, TypeOK
<1> DEFINE same == disk' = disk /\ install' = install /\ note' = note
                   /\ form'.backend = form.backend /\ form'.model = form.model
<1>same. same => ModelLanded' /\ NoteIsCurrent'
  BY NoteDepends DEF ModelLanded, NoteIsCurrent
<1>told. ASSUME NEW f, form' = f, note' = Noted(f), disk' = disk PROVE NoteIsCurrent'
  BY <1>told DEF NoteIsCurrent, Noted, ModelProblem
<1>1. CASE Relaunch
  <2>1. install'.at = "none"
    BY <1>1 DEF Relaunch, Idle
  <2>2. QED
    BY <1>1, <1>told, <2>1 DEF Relaunch, ModelLanded, Noted, ModelProblem, NoteIsCurrent
<1>2. CASE Edit
  <2>1. PICK f, field : Becomes(f, {field})
    BY <1>2, EditsOneField
  <2>2. UNCHANGED <<disk, install>>
    BY <1>2, EditsOneField
  <2>3. QED
    BY <1>told, <2>1, <2>2 DEF Becomes, NoteFollows, ModelLanded
<1>3. CASE PlugsChange
  BY <1>3, <1>same DEF PlugsChange
<1>4. CASE RefreshDevices
  <2>1. form'.model = form.model /\ form'.backend = form.backend
    BY <1>4 DEF RefreshDevices, Widgets
  <2>2. QED
    BY <1>4, <1>same, <2>1 DEF RefreshDevices
<1>5. CASE OnSave
  BY <1>5, <1>same DEF OnSave
<1>6. CASE OnLanguageChanged
  BY <1>6, <1>same DEF OnLanguageChanged
<1>7. CASE OnInstallModel
  <2>1. install.at # "fetched" /\ install'.at = "fetching"
    BY <1>7 DEF OnInstallModel
  <2>2. QED
    BY <1>7, <2>1, NoteDepends DEF OnInstallModel, ModelLanded, NoteIsCurrent
<1>8. CASE Fetched
  <2>1. install'.at = "fetched" /\ install'.model = install.model
    BY <1>8 DEF Fetched, Downloads
  <2>2. install.model \in Directories
    BY DEF Downloads
  <2>3. QED
    BY <1>8, <2>1, <2>2 DEF Fetched, ModelLanded, NoteIsCurrent
<1>9. CASE FetchFails
  <2>1. install.at # "fetched" /\ install'.at = "none"
    BY <1>9 DEF FetchFails, Idle
  <2>2. QED
    BY <1>9, <2>1, NoteDepends DEF FetchFails, ModelLanded, NoteIsCurrent
<1>10. CASE FinishInstall
  <2>1. install'.at = "none"
    BY <1>10 DEF FinishInstall, Idle
  <2>2. QED
    BY <1>10, <1>told, <2>1 DEF FinishInstall, Becomes, NoteFollows, ModelLanded
<1>11. CASE UNCHANGED vars
  BY <1>11, <1>same DEF vars
<1>12. QED
  BY <1>1, <1>2, <1>3, <1>4, <1>5, <1>6, <1>7, <1>8, <1>9, <1>10, <1>11 DEF Next

-----------------------------------------------------------------------------
(***************************************************************************)
(* The types, what the widgets show of the settings in force, and what is  *)
(* known of the disk: settings_tab.go, models_tab.go.                       *)
(***************************************************************************)
THEOREM Invariance == Spec => []IInv
<1>1. IInv /\ [Next]_vars => IInv'
  BY TypesStay, FieldsStay, NoteStaysCurrent DEF IInv
<1>2. QED
  BY InitHolds, <1>1, PTL DEF Spec

(***************************************************************************)
(* The note about the model directory is never stale, whichever of the two *)
(* widgets moved last: onBackendChanged and finishInstall.                  *)
(***************************************************************************)
THEOREM NoteStaysTrue == Spec => []NoteIsCurrent
<1>1. IInv => NoteIsCurrent
  BY DEF IInv
<1>2. QED
  BY <1>1, Invariance, PTL

\* A launch would fill the form with the same again.
LEMMA SameWidgets ==
  ASSUME NEW s \in Stored, NEW f \in Widgets, NEW list \in SUBSET (Microphones \cup {SystemDefault}),
         f.mode = s.mode, f.host = s.host, f.model = s.model, f.backend = Normalise(s.backend),
         \A l \in Language : s.ports[l] = ParsePort(f.ports[l]) /\ f.ports[l] # "word",
         f.device = Shown(list, s.device), f.hotkey = Checked(s.hotkey)
  PROVE  BuiltFrom(s, list) = f
<1> DEFINE g == BuiltFrom(s, list)
<1>1. g \in Widgets
  BY BuiltIsTyped
<1>2. /\ g.mode = f.mode /\ g.host = f.host /\ g.model = f.model /\ g.backend = f.backend
      /\ g.device = f.device /\ g.hotkey = f.hotkey
  BY BuiltFields
<1>3. g.ports = f.ports
  <2>1. g.ports = [l \in Language |-> PortText(s.ports[l])]
    BY DEF BuiltFrom
  <2>2. f.ports \in [Language -> PortTexts]
    BY DEF Widgets
  <2>3. \A l \in Language : PortText(s.ports[l]) = f.ports[l]
    BY <2>2, PortsRoundTrip
  <2>4. QED
    BY <2>1, <2>2, <2>3
<1> HIDE DEF g
<1>4. g = f
  <2>1. PICK a, b, c, d, e, h, i : f = [mode |-> a, host |-> b, model |-> c, backend |-> d,
                                       ports |-> e, device |-> h, hotkey |-> i]
    BY DEF Widgets
  <2>2. PICK q, r, t, u, v, w, x : g = [mode |-> q, host |-> r, model |-> t, backend |-> u,
                                       ports |-> v, device |-> w, hotkey |-> x]
    BY <1>1 DEF Widgets
  <2>3. QED
    BY <1>2, <1>3, <2>1, <2>2
<1>5. QED
  BY <1>4 DEF g

LEMMA SaveStores ==
  ASSUME IInv, [Next]_vars, edited # {}, edited' = {}, UNCHANGED <<form, devices>>
  PROVE  /\ Numeric /\ form.device \in devices => BuiltFrom(settings', devices) = form
         /\ \A field \in Untouched : settings'[field] = settings[field]
         /\ settings'.language = settings.language
<1> USE DEF IInv, TypeOK
<1>1. CASE Relaunch
  BY <1>1 DEF Relaunch
<1>2. CASE Edit
  BY <1>2, EditsOneField DEF Becomes
<1>3. CASE RefreshDevices
  <2>1. settings' = settings /\ edited = {"device"}
    BY <1>3 DEF RefreshDevices
  <2>2. form.device = Shown(devices, settings.device)
    BY <1>3 DEF RefreshDevices, Widgets
  <2>3. Numeric => BuiltFrom(settings, devices) = form
    <3>1. \A l \in Language : settings.ports[l] = ParsePort(form.ports[l])
      BY <2>1 DEF FieldsShown
    <3>2. QED
      BY <2>1, <2>2, <3>1, SameWidgets DEF FieldsShown, Numeric
  <2>4. QED
    BY <2>1, <2>3
<1>4. CASE OnSave
  <2>1. settings' = Collect(settings)
    BY <1>4 DEF OnSave, ApplySettings
  <2> DEFINE s == Collect(settings)
  <2>2. /\ s \in Stored /\ s.mode = form.mode /\ s.host = form.host /\ s.model = form.model
        /\ s.backend = form.backend /\ s.hotkey = form.hotkey
        /\ s.language = settings.language
        /\ s.ports = [l \in Language |-> ParsePort(form.ports[l])]
        /\ s.device = IF form.device \in devices THEN form.device ELSE SystemDefault
    BY CollectFields
  <2> HIDE DEF s
  <2>3. ASSUME Numeric, form.device \in devices PROVE BuiltFrom(s, devices) = form
    <3>1. Normalise(s.backend) = form.backend /\ Checked(s.hotkey) = form.hotkey
      <4>1. form.backend \in Backends /\ form.hotkey \in Chord
        BY DEF Widgets
      <4>2. form.hotkey.modifiers \subseteq Available
        BY <4>1 DEF Chord
      <4>3. Checked(s.hotkey) = form.hotkey
        BY <2>2, <4>1, <4>2, Checkboxes
      <4>4. QED
        BY <2>2, <4>1, <4>3, MachineAssumption DEF Normalise
    <3>2. Shown(devices, s.device) = form.device
      BY <2>2, <2>3 DEF Shown
    <3>3. \A l \in Language : s.ports[l] = ParsePort(form.ports[l]) /\ form.ports[l] # "word"
      BY <2>2, <2>3 DEF Numeric
    <3>4. QED
      BY <2>2, <3>1, <3>2, <3>3, SameWidgets
  <2>4. ASSUME NEW field \in Untouched PROVE s[field] = settings[field]
    <3>1. CASE field = "ports"
      <4>1. "ports" \notin edited
        BY <2>4, <3>1 DEF Untouched
      <4>2. \A l \in Language : settings.ports[l] = ParsePort(form.ports[l])
        BY <4>1 DEF FieldsShown
      <4>3. settings.ports \in [Language -> 0 .. 2]
        BY DEF Stored
      <4>4. s.ports = settings.ports
        BY <2>2, <4>2, <4>3
      <4>5. QED
        BY <3>1, <4>4
    <3>2. CASE field = "hotkey"
      <4>1. "hotkey" \notin edited /\ settings.hotkey.modifiers \subseteq Available
        BY <2>4, <3>2 DEF Untouched
      <4>2. form.hotkey = Checked(settings.hotkey) /\ settings.hotkey \in Shortcuts \cup Chord
        BY <4>1 DEF FieldsShown, Stored
      <4>3. QED
        BY <2>2, <3>2, <4>1, <4>2, Checkboxes
    <3>3. CASE field \in {"mode", "host", "model"}
      <4>1. field \notin edited
        BY <2>4, <3>3 DEF Untouched
      <4>2. QED
        BY <2>2, <3>3, <4>1 DEF FieldsShown
    <3>4. QED
      BY <3>1, <3>2, <3>3 DEF Untouched
  <2>5. QED
    BY <2>1, <2>2, <2>3, <2>4 DEF s
<1>5. CASE FinishInstall
  BY <1>5 DEF FinishInstall, Becomes
<1>6. CASE PlugsChange \/ OnLanguageChanged \/ OnInstallModel \/ Fetched \/ FetchFails
  BY <1>6 DEF PlugsChange, OnLanguageChanged, OnInstallModel, Fetched, FetchFails
<1>7. CASE UNCHANGED vars
  BY <1>7 DEF vars
<1>8. QED
  BY <1>1, <1>2, <1>3, <1>4, <1>5, <1>6, <1>7 DEF Next

(***************************************************************************)
(* A Save stores what the form shows and nothing else, for every settings  *)
(* file: collect of settings_tab.go and its build functions are inverse.    *)
(***************************************************************************)
THEOREM SaveIsFaithful == Spec => SaveStoresTheForm
<1>1. IInv /\ [Next]_vars =>
        [ edited # {} /\ edited' = {} /\ UNCHANGED <<form, devices>> =>
          /\ Numeric /\ form.device \in devices => BuiltFrom(settings', devices) = form
          /\ \A field \in Untouched : settings'[field] = settings[field]
          /\ settings'.language = settings.language ]_vars
  BY SaveStores
<1>2. QED
  BY <1>1, Invariance, PTL DEF Spec, SaveStoresTheForm

LEMMA DownloadIsAdopted ==
  ASSUME IInv, [Next]_vars, install.at = "fetched", install' = Idle, UNCHANGED steps,
         install.model.conversion = form.backend
  PROVE  Readable(form'.backend, form'.model)
<1> USE DEF IInv, TypeOK
<1>1. install.model \in Directories /\ install.model # NoDirectory
  <2>1. install.model \in Directories
    BY DEF Downloads
  <2>2. install.model.conversion \in Backends /\ NoDirectory.conversion = ""
    BY <2>1 DEF Directories, NoDirectory
  <2>3. QED
    BY <2>1, <2>2, MachineAssumption
<1>2. disk[install.model] = form.backend
  BY DEF ModelLanded
<1>3. CASE FinishInstall
  <2>1. CASE Adopts(install.model)
    <3>1. form' = [form EXCEPT !.model = install.model]
      BY <1>3, <2>1 DEF FinishInstall, Becomes
    <3>2. form'.backend = form.backend /\ form'.model = install.model
      BY <3>1 DEF Widgets
    <3>3. QED
      BY <1>1, <1>2, <3>2 DEF Readable
  <2>2. CASE ~Adopts(install.model)
    BY <1>3, <2>2 DEF FinishInstall, Becomes, Adopts
  <2>3. QED
    BY <2>1, <2>2
<1>4. CASE Relaunch \/ Edit \/ PlugsChange \/ RefreshDevices \/ OnSave \/ OnLanguageChanged
           \/ OnInstallModel
  <2>1. steps \in Nat /\ Step
    BY <1>4 DEF Relaunch, Edit, PlugsChange, RefreshDevices, OnSave, OnLanguageChanged, OnInstallModel
  <2>2. QED
    BY <2>1 DEF Step
<1>5. CASE Fetched \/ FetchFails
  BY <1>5 DEF Fetched, FetchFails
<1>6. CASE UNCHANGED vars
  BY <1>6 DEF vars, Idle
<1>7. QED
  BY <1>3, <1>4, <1>5, <1>6 DEF Next

(***************************************************************************)
(* The model that was downloaded for the chosen backend is one the form    *)
(* names a readable directory with: finishInstall and adoptModel.           *)
(***************************************************************************)
THEOREM DownloadBecomesUsable == Spec => DownloadedModelIsUsable
<1>1. IInv /\ [Next]_vars =>
        [ /\ install.at = "fetched" /\ install' = Idle /\ UNCHANGED steps
          /\ install.model.conversion = form.backend
          => Readable(form'.backend, form'.model) ]_vars
  BY DownloadIsAdopted
<1>2. QED
  BY <1>1, Invariance, PTL DEF Spec, DownloadedModelIsUsable
=============================================================================
