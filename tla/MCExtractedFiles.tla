-------------------------- MODULE MCExtractedFiles --------------------------
(***************************************************************************)
(* Instances of ExtractedFiles for TLC: five dumps of two processes, three *)
(* of which ask for one name and two for names a number may make.          *)
(***************************************************************************)
EXTENDS ExtractedFiles, TLC

MCDumps == {"d1", "d2", "d3", "d4", "d5"}
MCProcessOf == "d1" :> "p1" @@ "d2" :> "p1" @@ "d3" :> "p2" @@ "d4" :> "p2" @@ "d5" :> "p1"
MCAsked == "d1" :> <<7>> @@ "d2" :> <<7>> @@ "d3" :> <<7>>
           @@ "d4" :> <<7, 1>> @@ "d5" :> <<7, 2>>
MCRegimes == {[overlap |-> o, crash |-> TRUE] : o \in BOOLEAN}
OverlapRegimes == {[overlap |-> TRUE, crash |-> FALSE]}
MCExisting == {<<7, 1>>}
=============================================================================
