------------------------ MODULE MCStreamingSession ------------------------
(* Small instances of the streaming session: two words the accurate decoder *)
(* may read, one only the draft decoder does.                               *)
EXTENDS SessionProperties

CONSTANTS a, b, d

MCWord == {a, b, d}
MCFold == [w \in MCWord |-> w]

Mid(w) == [word |-> w, gap |-> 1]
End(w) == [word |-> w, gap |-> 0]

MCTexts == {<<End(a)>>, <<Mid(a), End(b)>>, <<Mid(b), End(a)>>}
MCDraftTexts == {<<End(d)>>, <<Mid(d), End(a)>>}
MCShortTexts == {<<End(a)>>, <<End(b)>>}

MCSingle == [texts |-> MCTexts, drafts |-> {}, window |-> 2]
MCDrafting == [texts |-> MCShortTexts, drafts |-> MCDraftTexts, window |-> 3]
MCBoth == {MCSingle, MCDrafting}
MCWide == {[MCSingle EXCEPT !.window = 4]}
=============================================================================
