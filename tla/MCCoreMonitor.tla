----------------------------- MODULE MCCoreMonitor -----------------------------
(***************************************************************************)
(* CoreMonitor for TLC: four crashes of one binary with the same signal    *)
(* (f1, f2, f3, f4) and a report of a power excess, which is never a       *)
(* duplicate (f5), in one directory or in two.                             *)
(***************************************************************************)
EXTENDS CoreMonitor, TLC

CONSTANTS f1, f2, f3, f4, f5, d1, d2, segv, Levels

Names == INSTANCE LogCollection

InOneDir  == [f \in Files |-> d1]
InTwoDirs == [f \in Files |-> IF f \in {f1, f3} THEN d1 ELSE d2]

BySignal == [f \in Files |-> IF f = f5 THEN NoClass ELSE segv]

\* Reports of one class in one directory can be told apart by nothing.
Alike == {p \in Permutations(Files) : \A f \in Files :
            ClassOf[p[f]] = ClassOf[f] /\ DirOf[p[f]] = DirOf[f]}

-----------------------------------------------------------------------------
(* The classes are those of the reports' names.                            *)

Crash(pid) == Names!CoreName(<<"voice", "-", "call">>, "hw", "11", pid)

NameOf ==
  (f1 :> Crash("1") @@ f2 :> Crash("2") @@ f3 :> Crash("3"))
    @@ (f4 :> Crash("4") @@ f5 :> Names!CoreName(<<"PowerExcess">>, "hw", "11", "5"))

ClassOfReport(f) == Names!ClassOfName(NameOf[f], NoClass)

ASSUME NamesAssumption == \A f, g \in Files :
  /\ ClassOf[f] = NoClass <=> ClassOfReport(f) = NoClass
  /\ ClassOf[f] = ClassOf[g] <=> ClassOfReport(f) = ClassOfReport(g)

\* Applications with dashes at any place, and one that is like a hardware id.
Applications == Names!SeqOf({"voice", "-", "hw"}, 4) \ {<<>>}

ASSUME PartsAreFound ==
  Names!PartsAreFound(Applications, {"hw", "11"}, {"1", "11"})
ASSUME AskedForIsKept ==
  Names!AskedForIsKept({<<"disk">>, <<"low", "-", "disk">>, <<"a", " ", "b">>},
                       {"hw"}, {"1"}, NoClass)
=============================================================================
