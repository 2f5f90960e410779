--------------------------- MODULE ContractProofs ---------------------------
(***************************************************************************)
(* What the contracts guarantee, whoever implements them: that of           *)
(* Deployment and that of copying.                                          *)
(***************************************************************************)
EXTENDS Deployment, TLAPS

ContractInv == TypeOK /\ NothingOrphaned

\* A step changes one life, which is again a life.
LEMMA LifeChange ==
    ASSUME TypeOK, NothingOrphaned, NEW c \in Clusters, NEW new \in Life,
           life' = [life EXCEPT ![c] = new],
           ~new.held => /\ ~new.placed /\ ~new.credentials
                        /\ new.release = "absent" /\ new.access = "absent",
           new.credentials \/ new.release # "absent" => new.access = "granted"
    PROVE  ContractInv'
  <1>1. TypeOK'
      BY DEF TypeOK
  <1>2. life'[c] = new /\ \A d \in Clusters \ {c} : life'[d] = life[d]
      BY DEF TypeOK
  <1>3. NothingOrphaned'
      BY <1>2 DEF NothingOrphaned, Cleared
  <1> QED
      BY <1>1, <1>3 DEF ContractInv

\* No implementation of the contract leaves anything behind for a Cluster that
\* is let go, or anything on a target cluster without the access to it.
THEOREM ContractOrphansNothing == Spec => []NothingOrphaned
  <1>1. Init => ContractInv
      BY DEF Init, ContractInv, TypeOK, Life, Nothing, NothingOrphaned, Cleared
  <1>2. ContractInv /\ [Next]_life => ContractInv'
    <2> SUFFICES ASSUME ContractInv, [Next]_life PROVE ContractInv'
        OBVIOUS
    <2>1. CASE UNCHANGED life
        BY <2>1 DEF ContractInv, TypeOK, NothingOrphaned, Cleared
    <2>2. ASSUME NEW c \in Clusters,
                 \/ Hold(c) \/ Request(c) \/ Grant(c) \/ Place(c) \/ Withdraw(c) \/ Furnish(c)
                 \/ Deploy(c) \/ Undeploy(c) \/ Uninstalled(c) \/ Revoke(c) \/ Revoked(c)
                 \/ LetGo(c)
          PROVE  ContractInv'
      <3>0. life \in [Clusters -> Life] /\ life[c] \in Life
          BY DEF ContractInv, TypeOK
      <3>1. /\ ~life[c].held => Cleared(c) /\ life[c].access = "absent"
            /\ life[c].credentials \/ life[c].release # "absent" => life[c].access = "granted"
          BY DEF ContractInv, NothingOrphaned
      <3> USE <3>0, <3>1, LifeChange DEF ContractInv, Life, Cleared
      <3>2. CASE Hold(c)
          BY <3>2 DEF Hold
      <3>3. CASE Request(c)
          BY <3>3 DEF Request
      <3>4. CASE Grant(c)
          BY <3>4 DEF Grant
      <3>5. CASE Place(c)
          BY <3>5 DEF Place
      <3>6. CASE Withdraw(c)
          BY <3>6 DEF Withdraw
      <3>7. CASE Furnish(c)
          BY <3>7 DEF Furnish
      <3>8. CASE Deploy(c)
          BY <3>8 DEF Deploy
      <3>9. CASE Undeploy(c)
          BY <3>9 DEF Undeploy
      <3>10. CASE Uninstalled(c)
          BY <3>10 DEF Uninstalled
      <3>11. CASE Revoke(c)
          BY <3>11, ZenonT(60) DEF Revoke
      <3>12. CASE Revoked(c)
          BY <3>12 DEF Revoked
      <3>13. CASE LetGo(c)
          BY <3>13 DEF LetGo
      <3> QED
          BY <2>2, <3>2, <3>3, <3>4, <3>5, <3>6, <3>7, <3>8, <3>9, <3>10, <3>11, <3>12, <3>13
    <2> QED
        BY <2>1, <2>2 DEF Next
  <1>3. ContractInv => NothingOrphaned
      BY DEF ContractInv
  <1> QED
      BY <1>1, <1>2, <1>3, PTL DEF Spec

-----------------------------------------------------------------------------
(* The contract of copying. *)

CONSTANTS Names, NoCluster, Demands

VARIABLES copies, pass

Copying == INSTANCE CopyContract

CopyingInv == Copying!TypeOK /\ Copying!InOrder

\* A step changes the copies of the Cluster of the pass, or of one that no pass
\* deals with, and keeps what the pass has reached.
LEMMA CopiesChange ==
    ASSUME CopyingInv, NEW c \in Clusters, NEW present \in SUBSET Names,
           copies' = [copies EXCEPT ![c] = present],
           pass' \in Copying!Pass, pass'.of = pass.of,
           pass'.phase # "none" => pass.phase # "none",
           pass'.phase # "none" =>
               Copying!Reached(pass'.phase, pass'.demand,
                               IF pass.of = c THEN present ELSE copies[pass.of])
    PROVE  CopyingInv'
  <1>1. copies \in [Clusters -> SUBSET Names] /\ (pass.phase # "none" => pass.of \in Clusters)
      BY DEF CopyingInv, Copying!TypeOK
  <1>2. Copying!TypeOK'
      BY <1>1 DEF Copying!TypeOK
  <1>3. ASSUME pass'.phase # "none"
        PROVE  copies'[pass'.of] = IF pass.of = c THEN present ELSE copies[pass.of]
      BY <1>1, <1>3
  <1>4. Copying!InOrder'
      BY <1>3 DEF Copying!InOrder
  <1> QED
      BY <1>2, <1>4 DEF CopyingInv

\* In every implementation of the contract of copying, what is to be there is
\* there from the end of the copying on, and nothing else from the end of the
\* removing on, until the pass ends: that nobody else touches the copies is
\* enough, whatever is asked for and however often passes break off.
THEOREM ContractCopiesInOrder ==
    (\A c \in Clusters : Demands[c] \subseteq Copying!Demand)
        => (Copying!Spec => []Copying!InOrder)
  <1> SUFFICES ASSUME \A c \in Clusters : Demands[c] \subseteq Copying!Demand
               PROVE  Copying!Spec => []Copying!InOrder
      OBVIOUS
  <1> USE DEF Copying!Demand
  <1>0. Copying!NoPass \in Copying!Pass /\ Copying!NoPass.phase = "none"
      BY DEF Copying!NoPass, Copying!Pass, Copying!Nothing
  <1>1. Copying!Init => CopyingInv
      BY <1>0 DEF Copying!Init, CopyingInv, Copying!TypeOK, Copying!InOrder
  <1>2. CopyingInv /\ [Copying!Next]_<<copies, pass>> => CopyingInv'
    <2> SUFFICES ASSUME CopyingInv, [Copying!Next]_<<copies, pass>>
                 PROVE  CopyingInv'
        OBVIOUS
    <2>0. /\ copies \in [Clusters -> SUBSET Names] /\ pass \in Copying!Pass
          /\ pass.phase # "none" => pass.of \in Clusters
          /\ pass.phase # "none" =>
                 Copying!Reached(pass.phase, pass.demand, copies[pass.of])
          /\ pass.demand.must \subseteq pass.demand.may
        BY DEF CopyingInv, Copying!TypeOK, Copying!InOrder, Copying!Pass
    <2>1. CASE UNCHANGED <<copies, pass>>
        BY <2>1 DEF CopyingInv, Copying!TypeOK, Copying!InOrder
    <2>2. ASSUME NEW c \in Clusters, Copying!Begin(c) PROVE CopyingInv'
      <3>1. PICK demand \in Demands[c], phase \in {"copying", "pruning", "done"} :
                /\ Copying!Reached(phase, demand, copies[c])
                /\ pass' = [of |-> c, demand |-> demand, phase |-> phase]
                /\ copies' = copies
          BY <2>2 DEF Copying!Begin
      <3>2. demand \in Copying!Demand
          BY <3>1
      <3> QED
          BY <2>0, <3>1, <3>2 DEF CopyingInv, Copying!TypeOK, Copying!InOrder, Copying!Pass
    <2>3. ASSUME NEW c \in Clusters, Copying!Vanish(c) PROVE CopyingInv'
      <3>1. PICK nothing \in SUBSET Names : nothing = {}
          OBVIOUS
      <3>2. copies' = [copies EXCEPT ![c] = nothing] /\ pass' = pass /\ pass.of # c
          BY <2>3, <3>1 DEF Copying!Vanish
      <3> QED
          BY <2>0, <3>2, CopiesChange
    <2>4. CASE Copying!Copy
      <3>1. PICK n \in pass.demand.may : copies' = [copies EXCEPT ![pass.of] = @ \cup {n}]
          BY <2>4 DEF Copying!Copy
      <3>2. pass.phase = "copying" /\ pass' = pass /\ pass.demand.may \subseteq Names
          BY <2>0, <2>4 DEF Copying!Copy, Copying!Pass
      <3>3. PICK c \in Clusters, present \in SUBSET Names :
                c = pass.of /\ present = copies[pass.of] \cup {n}
          BY <2>0, <3>1, <3>2
      <3>4. copies' = [copies EXCEPT ![c] = present]
          BY <3>1, <3>3
      <3>5. Copying!Reached(pass'.phase, pass'.demand, IF pass.of = c THEN present
                                                       ELSE copies[pass.of])
          BY <3>2 DEF Copying!Reached
      <3> QED
          BY <2>0, <3>2, <3>4, <3>5, CopiesChange
    <2>5. CASE Copying!Turn
        BY <2>0, <2>5
        DEF Copying!Turn, CopyingInv, Copying!TypeOK, Copying!InOrder, Copying!Pass
    <2>6. CASE Copying!Prune
      <3>1. pass.phase = "pruning" /\ pass.demand.must \subseteq copies[pass.of]
          BY <2>0, <2>6 DEF Copying!Prune, Copying!Reached
      <3>2. PICK c \in Clusters : c = pass.of
          BY <2>0, <3>1
      <3>3. PICK present \in SUBSET Names :
                /\ copies' = [copies EXCEPT ![c] = present]
                /\ pass.demand.must \subseteq present
        <4>1. CASE UNCHANGED copies
          <5>1. copies' = [copies EXCEPT ![c] = copies[c]] /\ copies[c] \in SUBSET Names
              BY <2>0, <4>1
          <5> QED
              BY <3>1, <3>2, <5>1
        <4>2. ASSUME NEW n \in Names \ pass.demand.may,
                     copies' = [copies EXCEPT ![pass.of] = @ \ {n}]
              PROVE  \E present \in SUBSET Names :
                         /\ copies' = [copies EXCEPT ![c] = present]
                         /\ pass.demand.must \subseteq present
          <5>1. copies' = [copies EXCEPT ![c] = copies[c] \ {n}]
              BY <3>2, <4>2
          <5>2. copies[c] \ {n} \in SUBSET Names /\ pass.demand.must \subseteq copies[c] \ {n}
              BY <2>0, <3>1, <3>2
          <5> QED
              BY <5>1, <5>2
        <4> QED
            BY <2>6, <4>1, <4>2 DEF Copying!Prune
      <3>4. copies'[pass.of] = present
          BY <2>0, <3>2, <3>3
      <3>5. CASE pass' = pass
        <4>1. Copying!Reached(pass'.phase, pass'.demand, IF pass.of = c THEN present
                                                         ELSE copies[pass.of])
            BY <3>1, <3>2, <3>3, <3>5 DEF Copying!Reached
        <4> QED
            BY <2>0, <3>3, <3>5, <4>1, CopiesChange
      <3>6. CASE /\ Copying!Reached("done", pass.demand, copies'[pass.of])
                 /\ pass' = [pass EXCEPT !.phase = "done"]
        <4>1. /\ pass' \in Copying!Pass /\ pass'.of = pass.of /\ pass'.phase = "done"
              /\ pass'.demand = pass.demand
            BY <2>0, <3>6 DEF Copying!Pass
        <4>2. Copying!Reached(pass'.phase, pass'.demand, IF pass.of = c THEN present
                                                         ELSE copies[pass.of])
            BY <3>2, <3>4, <3>6, <4>1
        <4> QED
            BY <3>1, <3>3, <4>1, <4>2, CopiesChange
      <3> QED
          BY <2>6, <3>5, <3>6 DEF Copying!Prune
    <2>7. CASE Copying!Leave
        BY <1>0, <2>0, <2>7 DEF Copying!Leave, CopyingInv, Copying!TypeOK, Copying!InOrder
    <2> QED
        BY <2>1, <2>2, <2>3, <2>4, <2>5, <2>6, <2>7 DEF Copying!Next
  <1>3. CopyingInv => Copying!InOrder
      BY DEF CopyingInv
  <1> QED
      BY <1>1, <1>2, <1>3, PTL DEF Copying!Spec

=============================================================================
