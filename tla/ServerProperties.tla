-------------------------- MODULE ServerProperties --------------------------
(* What the local servers owe the user.                                      *)
EXTENDS LocalServers

(***************************************************************************)
(* A process that nobody has told to stop can still be stopped: StopAll is *)
(* about to get to it, or the map or the dial that started it has it.      *)
(* Otherwise it holds the model in memory, through a quit of the client.   *)
(* Three exceptions, which the code does not prevent: of two dials that    *)
(* overlap, one cancelled and one asked for before it wound up, the map    *)
(* keeps the last; a quit does not wait for the dial it cancels; and       *)
(* nobody cancels a dial asked for after Quit's Abort, by the shortcut or  *)
(* the tray, which stores its server after StopAll emptied the map.        *)
(* manager.go: Ensure, StopAll; app.go: Quit.                              *)
(***************************************************************************)
NoServerIsLost ==
    \A c \in Dials :
        dial[c].alone /\ Alive(c) /\ process[c].told = "nothing" =>
            \/ c \in window.todo
            \/ /\ \/ servers[dial[c].language] = c
                  \/ dial[c].at \in {"wait", "store", "stop"}
               /\ window.at = "gone" => dial[c].cancelled \/ dial[c].late

(***************************************************************************)
(* A dictation asked for while nobody was changing the settings is served  *)
(* by a process started with the settings then in force, through crashes,  *)
(* failed starts, environments half made and any number of earlier saves.  *)
(* manager.go: Update, Ensure; dialer.go: Dial.                            *)
(***************************************************************************)
ServedAsAsked(c) ==
    dial[c].at = "open" /\ dial[c].server # Nobody =>
        [process[dial[c].server].settings EXCEPT !.remote = FALSE] = dial[c].asked
SettingsTakeEffect == \A c \in Dials : dial[c].calm => ServedAsAsked(c)

(***************************************************************************)
(* Whatever a process does (serves, dies while loading, never gets ready,  *)
(* ignores SIGTERM), the dial that started it returns, and saving settings *)
(* and quitting, which the window's goroutine waits for, come to an end.   *)
(* server.go: WaitReady, Stop; manager.go: Ensure, StopAll.                *)
(***************************************************************************)
ServersComeToAnEnd ==
    /\ \A c \in Dials : dial[c].at \in {"wait", "stop", "reap"}
                           ~> dial[c].at \in Over \/ window.at = "gone"
    /\ window.at \in {"closing", "stopAll"} ~> window.at \in {"idle", "gone"}
=============================================================================
