----------------------------- MODULE MCLobRecorder -----------------------------
EXTENDS LobRecorder

(* Each side appears, then one of them moves or vanishes, then the other.  *)
FourChanges == <<{<<"bid", 1>>}, {<<"ask", 1>>}, {<<"bid", 0>>, <<"bid", 2>>},
                 {<<"ask", 2>>}>>
=============================================================================
