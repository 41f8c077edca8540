------------------------------ MODULE MCDetect ------------------------------
(***************************************************************************)
(* Instances of Detect for TLC: small images of the kinds the detectors    *)
(* tell apart.                                                             *)
(***************************************************************************)
EXTENDS Detect, TLC

page(p, k, g) == [page |-> p, kind |-> k, good |-> g]
kernel(a, s, t) == [at |-> a, sig |-> s, text |-> t]
banner(a, t) == [at |-> a, text |-> t]
task(a, p, v) == [at |-> a, physical |-> p, virtual |-> v]

Blank == [pages |-> {}, kernels |-> <<>>, banners |-> {}, tasks |-> <<>>, notes |-> {}]
\* A decoy before the tables of the system, and two kernels in the space they span.
Win64 == [Blank EXCEPT !.pages = {page(20, "64", FALSE), page(26, "64", TRUE), page(30, "legacy", TRUE)},
                       !.kernels = 26 :> <<kernel(3, 5, "nt1"), kernel(4, 6, "nt2")>> @@ 30 :> <<kernel(4, 6, "nt2")>>]
\* The tables moved, and what was the base is a table of another process.
Win64Later == [Blank EXCEPT !.pages = {page(22, "64", TRUE), page(26, "64", FALSE)},
                            !.kernels = 22 :> <<kernel(3, 5, "nt1")>>]
WinLegacy == [Blank EXCEPT !.pages = {page(12, "legacy", TRUE), page(9, "32", FALSE)},
                           !.kernels = 12 :> <<kernel(4, 6, "nt2")>>]
WinPAE == [Blank EXCEPT !.pages = {page(14, "PAE", TRUE)},
                        !.kernels = 10 :> <<kernel(3, 5, "nt1")>>]
\* Two banners, and an idle task for each of the kernels they may name; what else passes
\* for one comes later.
Lin == [Blank EXCEPT !.banners = {banner(2, "a"), banner(7, "b")},
                     !.tasks = "a" :> <<task(4, 1, 1), task(6, 2, 1)>> @@ "b" :> <<task(4, 2, 2)>>,
                     !.notes = {"a"}]
\* The same kernel after a restart: other shifts, and the note is gone.
LinLater == [Lin EXCEPT !.tasks = "a" :> <<task(4, 3, 3)>> @@ "b" :> <<task(4, 5, 5)>>, !.notes = {}]
LinNoTask == [Blank EXCEPT !.banners = {banner(2, "b")}]
LinNoTable == [Blank EXCEPT !.banners = {banner(2, "c"), banner(5, "a")},
                            !.tasks = "c" :> <<task(4, 1, 1)>>]
\* A kernel of Windows whose symbols do not load, in a space where Linux left a banner.
WinBroken == [Win64Later EXCEPT !.kernels = 22 :> <<kernel(3, 5, "torn")>>,
                                !.banners = {banner(2, "b")}, !.tasks = "b" :> <<task(4, 2, 2)>>]
LinBroken == [Blank EXCEPT !.banners = {banner(2, "bad"), banner(5, "a")}]

at(i, c) == [id |-> i, holds |-> c]
\* Every capture has an identity of its own.
MCFiles == {at("1", Win64), at("2", Win64Later), at("3", WinLegacy), at("4", WinPAE),
            at("5", Lin), at("6", LinLater), at("7", LinNoTask), at("8", LinNoTable), at("9", Blank),
            at("10", WinBroken), at("11", LinBroken)}
ASSUME CapturesAssumption == ToldApart(MCFiles) /\ \A f \in MCFiles : Unambiguous(f.holds)

\* A capture that replaced another of the same length within the same second.
MCSameIdentity == {at("1", Lin), at("1", LinLater), at("2", Win64), at("2", Win64Later)}
MCLinFiles == {at("5", Lin)}
\* Two captures of one kernel.
MCKernelTwice == {at("5", Lin), at("6", LinLater)}

MCInstalled == {{"a", "b", "c", "nt1", "torn", "bad"}, {"b", "nt2"}, {}}
MCLinInstalled == {{"a", "b"}, {"b"}}
=============================================================================
