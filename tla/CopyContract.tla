---------------------------- MODULE CopyContract ----------------------------
(***************************************************************************)
(* What copySecrets and removeSecrets promise together, at one of the two    *)
(* sites: a pass copies what is asked for, then removes what is not, and     *)
(* nobody else touches the copies of a Cluster.  A pass may end at any time; *)
(* one that comes through both leaves exactly what was asked for.            *)
(***************************************************************************)
CONSTANTS
    Clusters, Names,
    NoCluster,
    Demands     \* Demands[c]: what may be asked for Cluster c

VARIABLES
    copies,     \* the names of the copies of each Cluster
    pass        \* the pass that deals with them

\* must: the copies that are to be there; may: those that may stay, among them
\* the names of sources that are their own copies.
Demand == {d \in [must: SUBSET Names, may: SUBSET Names] : d.must \subseteq d.may}

Pass == [of: Clusters \cup {NoCluster}, demand: Demand,
         phase: {"none", "copying", "pruning", "done"}]

Nothing == [must |-> {}, may |-> {}]

NoPass == [of |-> NoCluster, demand |-> Nothing, phase |-> "none"]

TypeOK ==
    /\ copies \in [Clusters -> SUBSET Names]
    /\ pass \in Pass
    /\ pass.phase # "none" => pass.of \in Clusters

Init ==
    /\ copies = [c \in Clusters |-> {}]
    /\ pass = NoPass

\* What is true of the copies when a pass is in the given phase.
Reached(phase, demand, present) ==
    /\ phase \in {"pruning", "done"} => demand.must \subseteq present
    /\ phase = "done" => present \subseteq demand.may

\* A pass need not do what has been done before.
Begin(c) ==
    /\ pass = NoPass
    /\ \E demand \in Demands[c], phase \in {"copying", "pruning", "done"} :
          /\ Reached(phase, demand, copies[c])
          /\ pass' = [of |-> c, demand |-> demand, phase |-> phase]
    /\ UNCHANGED copies

Copy ==
    /\ pass.phase = "copying"
    /\ \E n \in pass.demand.may : copies' = [copies EXCEPT ![pass.of] = @ \cup {n}]
    /\ UNCHANGED pass

\* Nothing is removed before all copies that are to be there are there.
Turn ==
    /\ pass.phase = "copying"
    /\ Reached("pruning", pass.demand, copies[pass.of])
    /\ pass' = [pass EXCEPT !.phase = "pruning"]
    /\ UNCHANGED copies

\* One copy less, or none; with the last the pass is done.
Prune ==
    /\ pass.phase = "pruning"
    /\ \/ UNCHANGED copies
       \/ \E n \in Names \ pass.demand.may : copies' = [copies EXCEPT ![pass.of] = @ \ {n}]
    /\ \/ UNCHANGED pass
       \/ /\ Reached("done", pass.demand, copies'[pass.of])
          /\ pass' = [pass EXCEPT !.phase = "done"]

\* The pass ends, done or not, or the process does.
Leave ==
    /\ pass' = NoPass
    /\ UNCHANGED copies

\* A Cluster takes its copies with it, but not under a pass.
Vanish(c) ==
    /\ pass.of # c
    /\ copies' = [copies EXCEPT ![c] = {}]
    /\ UNCHANGED pass

Next ==
    \/ \E c \in Clusters : Begin(c) \/ Vanish(c)
    \/ Copy \/ Turn \/ Prune \/ Leave

Spec == Init /\ [][Next]_<<copies, pass>>

\* What a pass has brought in order stays so until it ends.
InOrder == pass.phase # "none" => Reached(pass.phase, pass.demand, copies[pass.of])

=============================================================================
