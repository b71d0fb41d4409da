---------------------------- MODULE MCSessionRun ----------------------------
(* Two things that may have the focus: an untitled mail, with a word       *)
(* selected, and a password prompt whose window's title alone matches an  *)
(* application profile.                                                    *)
EXTENDS SessionRun

Control(role, value, range) ==
  [secureInput |-> FALSE, role |-> role, value |-> value, range |-> range]

MCScreens ==
  { [app |-> [bundle |-> "com.apple.mail", name |-> "Mail"], title |-> Null,
     control |-> Control("AXTextArea", <<"a", "b", "c", "d">>, <<2, 1>>)],
    [app |-> [bundle |-> "com.example.shell", name |-> "Shell"], title |-> "Terminal",
     control |-> Control("AXSecureTextField", <<"s">>, <<0, 0>>)] }

(* Too short; silent; speech a frame short of the minimum; just enough of  *)
(* it; a steady hum; speech without a pause.                               *)
Lasting(n, frame) == [i \in 1..n |-> frame]
MCRecordings ==
  { Lasting(10, Voice), Lasting(20, Silent), Lasting(8, Silent) \o Lasting(12, Voice),
    Lasting(8, Silent) \o Lasting(13, Voice), Lasting(20, Hum), Lasting(20, Voice) }
=============================================================================
