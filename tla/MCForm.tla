------------------------------- MODULE MCForm -------------------------------
(* A small instance of the settings form: two conversions of one model, one  *)
(* microphone, and a shortcut from another platform.                         *)
EXTENDS Form

CONSTANTS ko, en

MCShortcuts == {[modifiers |-> {"Ctrl"}, key |-> "M"], [modifiers |-> {"Ctrl", "Win"}, key |-> "M"],
                [modifiers |-> {}, key |-> "M"]}

Fresh == [mode |-> "local", host |-> "", language |-> ko, backend |-> "",
          model |-> [family |-> "large", conversion |-> "cpu"],
          ports |-> [l \in {ko, en} |-> 0], device |-> SystemDefault,
          hotkey |-> [modifiers |-> {"Ctrl"}, key |-> "M"]]
Configured == [Fresh EXCEPT !.backend = "intel-gpu", !.ports[ko] = 1, !.device = "headset"]
Remote == [Fresh EXCEPT !.mode = "remote", !.host = "host", !.hotkey.modifiers = {"Ctrl", "Win"}]
MCInitial == {Fresh, Configured, Remote}
MCConfigured == {Configured}
=============================================================================
