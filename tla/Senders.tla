------------------------------ MODULE Senders ------------------------------
(***************************************************************************)
(* The programs that hand frames to the senders of the interfaces: the GUI *)
(* backend, j1939Sender and the web server.  One of them runs.             *)
(***************************************************************************)
EXTENDS GuiSender, J1939Sender, WebServer

onlyGui == <<framesToSend, moved>>
onlyCli == <<fms1Frames, ttsPeriod, running>>
onlyWeb == <<link, mHelpers, mSenders, serverVars>>

vars == <<program, object, framePeriods, rings, onlyGui, onlyCli, onlyWeb>>

TypeOK ==
  /\ program \in {"gui", "cli", "web"}
  /\ program = "gui" => GuiTypeOK
  /\ program = "cli" => CliTypeOK
  /\ program = "web" => WebTypeOK

Init ==
  /\ program \in {"gui", "cli", "web"}
  /\ GuiInit /\ CliInit /\ WebInit

Next ==
  /\ UNCHANGED program
  /\ \/ program = "gui" /\ GuiNext /\ UNCHANGED <<onlyCli, onlyWeb>>
     \/ program = "cli" /\ CliNext /\ UNCHANGED <<onlyGui, onlyWeb>>
     \/ program = "web" /\ WebNext
        /\ UNCHANGED <<object, framePeriods, onlyGui, onlyCli>>

Spec == Init /\ [][Next]_vars
=============================================================================
