--------------------------- MODULE Startup_proofs ---------------------------
(***************************************************************************)
(* For any number of processes and of faults: a start that gets to the     *)
(* network has every directory, and a content directory is forgotten only  *)
(* with the start that made it.                                            *)
(*                                                                         *)
(* The invariants of the runs say nothing of a start on its way; the       *)
(* strengthening does: the branches behind it have left their directories, *)
(* since no step removes one, and a start joins the network's thread only  *)
(* behind the last branch and with the flag down.                          *)
(***************************************************************************)
EXTENDS Startup, TLAPS

Behind == \A p \in Process :
    /\ \A i \in 1 .. 7 : i < at[p] => Path[i] \in disk
    /\ pc[p] = "join" => at[p] = 8 /\ ~NeedsPropagation[p]

IInv == TypeOK /\ Behind /\ OwedAccountedFor

LEMMA PathLemma ==
    /\ Len(Path) = 7
    /\ \A i \in 1 .. 7 : Path[i] \in Directory
    /\ \A d \in Directory : \E i \in 1 .. 7 : Path[i] = d
    /\ Content \subseteq Directory
<1>1. Len(Path) = 7
  BY DEF Path
<1>2. \A i \in 1 .. 7 : Path[i] \in Directory
  BY DEF Path, Directory
<1>3. /\ Path[1] = "root" /\ Path[2] = "ents" /\ Path[3] = "logs"
      /\ Path[4] = "maps" /\ Path[5] = "players" /\ Path[6] = "scripts"
      /\ Path[7] = "config"
  BY DEF Path
<1>4. \A d \in Directory : \E i \in 1 .. 7 : Path[i] = d
  BY <1>3 DEF Directory
<1>5. Content \subseteq Directory
  BY DEF Content, Directory
<1> QED
  BY <1>1, <1>2, <1>4, <1>5

THEOREM InitInv == Init => IInv
  BY PathLemma, StartupAssumption DEF Init, IInv, TypeOK, Behind, OwedAccountedFor

LEMMA FaultBound == ASSUME TypeOK, Fault PROVE faults' \in 0 .. MaxFaults
BY StartupAssumption DEF TypeOK, Fault

(* Every start that ends leaves what it made to the announced or the lost. *)
LEMMA ExitStep ==
  ASSUME NEW p \in Process, IInv, Exit(p), disk' = disk,
         owed' \subseteq Content, lost' \subseteq Content, faults' \in 0 .. MaxFaults,
         owed' \subseteq owed, lost \subseteq lost',
         net[p] = "none" => owed' \intersect made[p] \subseteq lost'
  PROVE  IInv'
<1>1. TypeOK'
  BY PathLemma DEF IInv, TypeOK, Exit
<1>2. Behind'
  BY DEF IInv, TypeOK, Behind, Exit
<1>3. OwedAccountedFor'
  <2> SUFFICES ASSUME NEW d \in owed', d \notin lost'
               PROVE  \E q \in Process : net'[q] = "none" /\ d \in made'[q]
    BY DEF OwedAccountedFor
  <2>1. PICK q \in Process : net[q] = "none" /\ d \in made[q]
    BY DEF IInv, OwedAccountedFor
  <2>2. q # p
    BY <2>1
  <2> QED
    BY <2>1, <2>2 DEF IInv, TypeOK, Exit
<1> QED
  BY <1>1, <1>2, <1>3 DEF IInv

(* Steps that leave the disk and the histories alone. *)
LEMMA LocalStep ==
  ASSUME NEW p \in Process, IInv, Launch(p) \/ Parse(p) \/ CheckExists(p)
  PROVE  IInv'
<1>1. UNCHANGED <<disk, NeedsPropagation, net, made, owed, lost, faults>>
  BY DEF Launch, Parse, CheckExists
<1>2. OwedAccountedFor'
  BY <1>1 DEF IInv, OwedAccountedFor
<1>3. CASE Launch(p)
  <2>1. TypeOK'
    BY <1>3 DEF IInv, TypeOK, Launch
  <2>2. Behind'
    BY <1>3 DEF IInv, TypeOK, Behind, Launch
  <2> QED
    BY <1>2, <2>1, <2>2 DEF IInv
<1>4. CASE Parse(p)
  <2>1. TypeOK'
    BY <1>4 DEF IInv, TypeOK, Parse
  <2>2. Behind'
    BY <1>4 DEF IInv, TypeOK, Behind, Parse
  <2> QED
    BY <1>2, <2>1, <2>2 DEF IInv
<1>5. CASE CheckExists(p)
  <2>1. TypeOK'
    <3>1. CASE Exists(Path[at[p]])
      BY <1>5, <3>1, PathLemma DEF IInv, TypeOK, CheckExists
    <3>2. CASE ~Exists(Path[at[p]])
      BY <1>5, <3>2, PathLemma DEF IInv, TypeOK, CheckExists
    <3> QED
      BY <3>1, <3>2
  <2>2. Behind'
    <3>1. CASE Exists(Path[at[p]])
      BY <1>5, <3>1, PathLemma DEF IInv, TypeOK, Behind, CheckExists, Exists
    <3>2. CASE ~Exists(Path[at[p]])
      BY <1>5, <3>2, PathLemma DEF IInv, TypeOK, Behind, CheckExists
    <3> QED
      BY <3>1, <3>2
  <2> QED
    BY <1>2, <2>1, <2>2 DEF IInv
<1> QED
  BY <1>3, <1>4, <1>5

(* A branch of DirectoryInit: the flag and the history move together. *)
LEMMA MkDirStep ==
  ASSUME NEW p \in Process, IInv, MkDir(p)
  PROVE  IInv'
<1> DEFINE d == Path[at[p]]
<1>1. at[p] \in 1 .. 7 /\ d \in Directory
  BY PathLemma DEF IInv, TypeOK, MkDir
<1>2. net[p] = "none"
  BY DEF IInv, TypeOK, MkDir
<1>3. TypeOK'
  <2>1. NeedsPropagation'[p] <=> made'[p] # {}
    BY <1>1 DEF IInv, TypeOK, MkDir, Flag
  <2>2. NeedsPropagation' \in [Process -> BOOLEAN]
    BY DEF IInv, TypeOK, MkDir, Flag
  <2>3. \A q \in Process \ {p} : /\ NeedsPropagation'[q] = NeedsPropagation[q]
                                 /\ made'[q] = made[q]
                                 /\ pc'[q] = pc[q] /\ at'[q] = at[q]
    BY DEF IInv, TypeOK, MkDir
  <2>4. /\ pc' \in [Process -> {"down", "config", "check", "make", "join"}]
        /\ at' \in [Process -> 1 .. Len(Path) + 1]
        /\ pc'[p] = "check" /\ pc[p] = "make" /\ net' = net
    BY <1>1, PathLemma DEF IInv, TypeOK, MkDir
  <2>5. /\ disk' \subseteq Directory /\ owed' \subseteq Content
        /\ lost' \subseteq Content /\ faults' \in 0 .. MaxFaults
        /\ made' \in [Process -> SUBSET Content]
    BY <1>1 DEF IInv, TypeOK, MkDir
  <2>6. \A q \in Process :
          /\ net'[q] # "none" <=> pc'[q] = "join"
          /\ pc'[q] \in {"down", "config"} => at'[q] = 1 /\ made'[q] = {}
          /\ pc'[q] = "make" => at'[q] <= Len(Path)
          /\ NeedsPropagation'[q] <=> made'[q] # {}
    BY <1>2, <2>1, <2>3, <2>4 DEF IInv, TypeOK
  <2> QED
    BY <2>2, <2>4, <2>5, <2>6 DEF IInv, TypeOK
<1>4. Behind'
  BY <1>1, PathLemma DEF IInv, TypeOK, Behind, MkDir
<1>5. OwedAccountedFor'
  <2> SUFFICES ASSUME NEW e \in owed', e \notin lost'
               PROVE  \E q \in Process : net'[q] = "none" /\ e \in made'[q]
    BY DEF OwedAccountedFor
  <2>1. CASE e \in owed
    <3>1. PICK q \in Process : net[q] = "none" /\ e \in made[q]
      BY <2>1 DEF IInv, OwedAccountedFor, MkDir
    <3> QED
      BY <3>1 DEF IInv, TypeOK, MkDir
  <2>2. CASE e \notin owed
    <3>1. e \in Content \intersect {d}
      BY <2>2 DEF MkDir
    <3> QED
      BY <1>2, <3>1 DEF IInv, TypeOK, MkDir
  <2> QED
    BY <2>1, <2>2
<1> QED
  BY <1>3, <1>4, <1>5 DEF IInv

(* The flag is down, so the start has made nothing it could forget. *)
LEMMA NetworkStep ==
  ASSUME NEW p \in Process, IInv,
         StartNetwork(p) \/ Listen(p) \/ BindFails(p) \/ Stop(p)
  PROVE  IInv'
<1>1. UNCHANGED <<disk, at, NeedsPropagation, made, owed, lost>> /\ faults' \in 0 .. MaxFaults
  BY StartupAssumption
  DEF IInv, TypeOK, StartNetwork, Listen, BindFails, Fault, Stop
<1>2. pc[p] \in {"check", "join"} /\ made[p] = {} /\ at[p] = 8
      /\ ~NeedsPropagation[p]
  BY PathLemma DEF IInv, TypeOK, Behind, StartNetwork, Listen, BindFails, Stop
<1>3. /\ pc' = [pc EXCEPT ![p] = "join"]
      /\ net' \in [Process -> {"none", "starting", "listening", "over"}]
      /\ net'[p] # "none"
      /\ \A q \in Process \ {p} : net'[q] = net[q]
  <2>1. CASE StartNetwork(p)
    BY <2>1 DEF IInv, TypeOK, StartNetwork
  <2>2. CASE Listen(p) \/ BindFails(p) \/ Stop(p)
    <3>1. pc[p] = "join" /\ pc' = pc
      BY <2>2 DEF IInv, TypeOK, Listen, BindFails, Stop
    <3> QED
      BY <2>2, <3>1 DEF IInv, TypeOK, Listen, BindFails, Stop
  <2> QED
    BY <2>1, <2>2
<1>4. TypeOK'
  BY <1>1, <1>2, <1>3, PathLemma DEF IInv, TypeOK
<1>5. Behind'
  BY <1>1, <1>2, <1>3 DEF IInv, TypeOK, Behind
<1>6. OwedAccountedFor'
  BY <1>1, <1>2, <1>3 DEF IInv, OwedAccountedFor
<1> QED
  BY <1>4, <1>5, <1>6 DEF IInv

(* Every step of the program and of its surroundings keeps the invariant. *)
THEOREM StepInv == IInv /\ [Next]_vars => IInv'
<1> SUFFICES ASSUME IInv, [Next]_vars PROVE IInv'
  OBVIOUS
<1>1. CASE UNCHANGED vars
  BY <1>1 DEF vars, local, IInv, TypeOK, Behind, OwedAccountedFor
<1>2. ASSUME NEW p \in Process,
             Launch(p) \/ Parse(p) \/ CheckExists(p)
      PROVE  IInv'
  BY <1>2, LocalStep
<1>3. ASSUME NEW p \in Process, MkDir(p) PROVE IInv'
  BY <1>3, MkDirStep
<1>4. ASSUME NEW p \in Process,
             StartNetwork(p) \/ Listen(p) \/ BindFails(p) \/ Stop(p)
      PROVE  IInv'
  BY <1>4, NetworkStep
<1>5. ASSUME NEW p \in Process, ParseExits(p) PROVE IInv'
  <2>1. net[p] = "none" /\ made[p] = {}
    BY <1>5 DEF IInv, TypeOK, ParseExits
  <2>2. faults' \in 0 .. MaxFaults
    BY <1>5, FaultBound DEF IInv, ParseExits
  <2> QED
    BY <1>5, <2>1, <2>2, ExitStep DEF IInv, TypeOK, ParseExits
<1>6. ASSUME NEW p \in Process, MkDirFails(p) PROVE IInv'
  <2>1. faults' \in 0 .. MaxFaults
    BY <1>6, FaultBound DEF IInv, MkDirFails
  <2> QED
    BY <1>6, <2>1, ExitStep DEF IInv, TypeOK, MkDirFails
<1>7. ASSUME NEW p \in Process, Announce(p) PROVE IInv'
  BY <1>7, ExitStep DEF IInv, TypeOK, Announce
<1>8. ASSUME NEW p \in Process, Join(p) PROVE IInv'
  BY <1>8, ExitStep DEF IInv, TypeOK, Join
<1>9. ASSUME NEW p \in Process, Crash(p) PROVE IInv'
  <2>1. faults' \in 0 .. MaxFaults
    BY <1>9, FaultBound DEF IInv, Crash
  <2> QED
    BY <1>9, <2>1, ExitStep DEF IInv, TypeOK, Crash
<1> QED
  BY <1>1, <1>2, <1>3, <1>4, <1>5, <1>6, <1>7, <1>8, <1>9 DEF Next, Step

(* Behind the last branch, every directory exists. *)
LEMMA InvLayout == IInv => LayoutComplete
<1> SUFFICES ASSUME IInv, NEW p \in Process, net[p] # "none", NEW d \in Directory
             PROVE  d \in disk
  BY DEF LayoutComplete
<1>1. at[p] = 8
  BY DEF IInv, TypeOK, Behind
<1>2. PICK i \in 1 .. 7 : Path[i] = d
  BY PathLemma
<1> QED
  BY <1>1, <1>2 DEF IInv, Behind

(* The strengthened invariant holds in every state of every behaviour. *)
THEOREM AlwaysIInv == Spec => []IInv
  BY InitInv, StepInv, PTL DEF Spec

(* The shape of the state, the flag and what it stands for. *)
THEOREM StartupTypeOK == Spec => []TypeOK
<1>1. IInv => TypeOK
  BY DEF IInv
<1> QED
  BY <1>1, AlwaysIInv, PTL

(* No process comes to the network with a directory missing, however many  *)
(* processes start at once and wherever the earlier ones died.             *)
THEOREM NetworkHasDirectories == Spec => []LayoutComplete
  BY InvLayout, AlwaysIInv, PTL

(* What was created and not announced was lost with a process, or is on    *)
(* its way to the announcement.                                            *)
THEOREM NothingForgotten == Spec => []OwedAccountedFor
<1>1. IInv => OwedAccountedFor
  BY DEF IInv
<1> QED
  BY <1>1, AlwaysIInv, PTL
=============================================================================
