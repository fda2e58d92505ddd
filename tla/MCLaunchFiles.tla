----------------------------- MODULE MCLaunchFiles -----------------------------
(* Two launchers; a program of Java, a library without a hash, and of Forge an   *)
(* installer, a library and the outputs of two processors, of which one is run   *)
(* at every launch.                                                              *)
EXTENDS LaunchFiles, TLC

MCSlots == {"java", "fabric", "installer", "tool", "patched", "mappings"}

MCFile == [s \in MCSlots |-> s]

MCLoadOf ==
    [s \in MCSlots |-> CASE s = "java" -> "java" [] s = "fabric" -> "libraries"
                         [] s = "installer" -> "installer" [] s = "tool" -> "profile"
                         [] s \in {"patched", "mappings"} -> "outputs"]

\* Java of one's own has nothing to do with the rest of Forge, and Forge is of one
\* version at a time.
FewMixtures ==
    \A l \in Launchers :
        /\ plan[l].java = "own" => plan[l].loader \in {"fabric", "bare"}
        /\ plan[l].loader \in {"legacy", "bare"} =>
              \A k \in Launchers \ {l} : plan[k].loader \in {"vanilla", "fabric"}

LauncherSymmetry == Permutations(Launchers)
=============================================================================
