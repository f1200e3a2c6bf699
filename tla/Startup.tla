------------------------------ MODULE Startup ------------------------------
(***************************************************************************)
(* Starting the server: ServerInit, DirectoryInit and NetInit              *)
(* (Server/ServerInit.cpp) with ServerConfigParser::Parse and FileSystem.  *)
(*                                                                         *)
(* DirectoryInit creates what is missing of the data directory, one        *)
(* directory at a time.  A start that had to create one of the three that  *)
(* need contents says so and exits: the operator is to fill them before    *)
(* the next start.  The flag that decides this is a local variable, the    *)
(* directories outlive the process.                                        *)
(*                                                                         *)
(* A process is a start of the program with one data_dir and one port,     *)
(* shared with the other processes.  Outside the program, and actions of   *)
(* their own: who starts it, with which options, the file system that may  *)
(* refuse, the port that may be taken, signals, and a death of the process *)
(* at any point.                                                           *)
(***************************************************************************)
EXTENDS Integers, Sequences

CONSTANTS
    Process,    \* processes that may run at once
    MaxFaults   \* bound: starts refused, calls failed and crashes

ASSUME StartupAssumption == MaxFaults \in Nat

(* The directories in the order of DirectoryInit. *)
Path == <<"root", "ents", "logs", "maps", "players", "scripts", "config">>

Directory == {"root", "ents", "logs", "maps", "players", "scripts", "config"}

(* Those that "require propagation": their branch sets NeedsPropagation. *)
Content == {"maps", "scripts", "config"}

VARIABLES
    disk,               \* directories that exist
    pc,                 \* per process: where its main thread is
    at,                 \* the branch of DirectoryInit, an index of Path
    NeedsPropagation,
    net,                \* NetInit's thread
    made,               \* history: the content directories this start made
    owed,               \* history: content directories the program created
                        \* and has not told the operator about
    lost,               \* history: made by starts that did not get to the end
    faults

local == <<pc, at, NeedsPropagation, net, made>>
vars == <<disk, local, owed, lost, faults>>

-----------------------------------------------------------------------------
(* The process ends, and its locals with it. *)
Exit(p) ==
    /\ pc' = [pc EXCEPT ![p] = "down"]
    /\ at' = [at EXCEPT ![p] = 1]
    /\ NeedsPropagation' = [NeedsPropagation EXCEPT ![p] = FALSE]
    /\ net' = [net EXCEPT ![p] = "none"]
    /\ made' = [made EXCEPT ![p] = {}]

Fault ==
    /\ faults < MaxFaults
    /\ faults' = faults + 1

(* External: somebody starts the server. *)
Launch(p) ==
    /\ pc[p] = "down"
    /\ pc' = [pc EXCEPT ![p] = "config"]
    /\ UNCHANGED <<disk, at, NeedsPropagation, net, made, owed, lost, faults>>

(* Parse returns: the options and the configuration file are all right. *)
Parse(p) ==
    /\ pc[p] = "config"
    /\ pc' = [pc EXCEPT ![p] = "check"]
    /\ UNCHANGED <<disk, at, NeedsPropagation, net, made, owed, lost, faults>>

(* Parse exits: --help or --version, a configuration file that cannot be   *)
(* opened, or one that the parser refuses.                                 *)
ParseExits(p) ==
    /\ pc[p] = "config"
    /\ Fault /\ Exit(p)
    /\ UNCHANGED <<disk, owed, lost>>

(* Mutant: the path that is looked for is not the one that is made. *)
Exists_Misspelt(d) == d \in disk \ {"config"}

(* Mutant: every condition looks for the data directory itself. *)
Exists_RootOnly(d) == "root" \in disk

Exists(d) == d \in disk

(* One condition of DirectoryInit. *)
CheckExists(p) ==
    /\ pc[p] = "check" /\ at[p] <= Len(Path)
    /\ IF Exists(Path[at[p]])
         THEN at' = [at EXCEPT ![p] = at[p] + 1] /\ UNCHANGED pc
         ELSE pc' = [pc EXCEPT ![p] = "make"] /\ UNCHANGED at
    /\ UNCHANGED <<disk, NeedsPropagation, net, made, owed, lost, faults>>

(* Mutant: every branch assigns the flag, so that the last one decides. *)
Flag_LastBranch(flag, d) == d \in Content

(* Mutant: every directory asks for contents. *)
Flag_Always(flag, d) == TRUE

(* The flag after the branch of d. *)
Flag(flag, d) == flag \/ d \in Content

(* One branch of DirectoryInit, with the call of FileSystem::MkDir.  MkDir *)
(* looks again: a directory another process has made meanwhile is left     *)
(* alone, but the branch goes on to set the flag all the same.             *)
MkDir(p) ==
    LET d == Path[at[p]] IN
    /\ pc[p] = "make"
    /\ d \in disk \/ d = "root" \/ "root" \in disk
    /\ disk' = disk \union {d}
    /\ owed' = owed \union ((Content \intersect {d}) \ disk)
    /\ made' = [made EXCEPT ![p] = @ \union (Content \intersect {d})]
    /\ NeedsPropagation' =
         [NeedsPropagation EXCEPT ![p] = Flag(NeedsPropagation[p], d)]
    /\ pc' = [pc EXCEPT ![p] = "check"]
    /\ at' = [at EXCEPT ![p] = at[p] + 1]
    /\ UNCHANGED <<net, lost, faults>>

(* create_directory throws, and MkDir exits with 1. *)
MkDirFails(p) ==
    /\ pc[p] = "make" /\ Path[at[p]] \notin disk
    /\ lost' = lost \union made[p]
    /\ Fault /\ Exit(p)
    /\ UNCHANGED <<disk, owed>>

(* DirectoryInit returns true: ServerInit logs it and exits. *)
Announce(p) ==
    /\ pc[p] = "check" /\ at[p] > Len(Path) /\ NeedsPropagation[p]
    /\ owed' = owed \ made[p]
    /\ Exit(p)
    /\ UNCHANGED <<disk, lost, faults>>

(* It returns false: the thread is created and joined. *)
StartNetwork(p) ==
    /\ pc[p] = "check" /\ at[p] > Len(Path) /\ ~NeedsPropagation[p]
    /\ pc' = [pc EXCEPT ![p] = "join"]
    /\ net' = [net EXCEPT ![p] = "starting"]
    /\ UNCHANGED <<disk, at, NeedsPropagation, made, owed, lost, faults>>

PortTaken == \E q \in Process : net[q] = "listening"

(* The acceptor is constructed, and run() begins. *)
Listen(p) ==
    /\ net[p] = "starting" /\ ~PortTaken
    /\ net' = [net EXCEPT ![p] = "listening"]
    /\ UNCHANGED <<disk, pc, at, NeedsPropagation, made, owed, lost, faults>>

(* Its constructor throws, because another process has the port or the     *)
(* port cannot be had.  NetInit catches it, and the thread ends.           *)
BindFails(p) ==
    /\ net[p] = "starting"
    /\ IF PortTaken THEN UNCHANGED faults ELSE Fault
    /\ net' = [net EXCEPT ![p] = "over"]
    /\ UNCHANGED <<disk, pc, at, NeedsPropagation, made, owed, lost>>

(* run() returns for a signal or is left by an exception (see TCPServer). *)
Stop(p) ==
    /\ net[p] = "listening"
    /\ net' = [net EXCEPT ![p] = "over"]
    /\ UNCHANGED <<disk, pc, at, NeedsPropagation, made, owed, lost, faults>>

(* The main thread has joined the thread, and exits with 0. *)
Join(p) ==
    /\ pc[p] = "join" /\ net[p] = "over"
    /\ Exit(p)
    /\ UNCHANGED <<disk, owed, lost, faults>>

(* External: the process is killed, by a signal before NetInit waits for   *)
(* signals or by the machine.                                              *)
Crash(p) ==
    /\ pc[p] # "down"
    /\ lost' = lost \union made[p]
    /\ Fault /\ Exit(p)
    /\ UNCHANGED <<disk, owed>>

-----------------------------------------------------------------------------
Init ==
    /\ disk \in {d \in SUBSET Directory : d # {} => "root" \in d}
    /\ pc = [p \in Process |-> "down"]
    /\ at = [p \in Process |-> 1]
    /\ NeedsPropagation = [p \in Process |-> FALSE]
    /\ net = [p \in Process |-> "none"]
    /\ made = [p \in Process |-> {}]
    /\ owed = {} /\ lost = {} /\ faults = 0

(* What the program does by itself. *)
Step(p) ==
    \/ Parse(p) \/ CheckExists(p) \/ MkDir(p)
    \/ Announce(p) \/ StartNetwork(p)
    \/ Listen(p) \/ Join(p)

Next == \E p \in Process :
    \/ Launch(p) \/ Step(p)
    \/ ParseExits(p) \/ MkDirFails(p) \/ BindFails(p) \/ Stop(p) \/ Crash(p)

Spec == Init /\ [][Next]_vars

(* The operating system runs a process that has something to do.  Nothing  *)
(* is assumed of who starts it or stops it.                                *)
FairSpec == Spec /\ \A p \in Process : WF_vars(Step(p) \/ BindFails(p))

-----------------------------------------------------------------------------
(* The shape of the state; a process keeps nothing of an earlier start, and *)
(* the flag stands for the content directories made since it was started.  *)
TypeOK ==
    /\ disk \subseteq Directory
    /\ pc \in [Process -> {"down", "config", "check", "make", "join"}]
    /\ at \in [Process -> 1 .. Len(Path) + 1]
    /\ NeedsPropagation \in [Process -> BOOLEAN]
    /\ net \in [Process -> {"none", "starting", "listening", "over"}]
    /\ made \in [Process -> SUBSET Content]
    /\ owed \subseteq Content /\ lost \subseteq Content
    /\ faults \in 0 .. MaxFaults
    /\ \A p \in Process :
         /\ net[p] # "none" <=> pc[p] = "join"
         /\ pc[p] \in {"down", "config"} => at[p] = 1 /\ made[p] = {}
         /\ pc[p] = "make" => at[p] <= Len(Path)
         /\ NeedsPropagation[p] <=> made[p] # {}

(* Whoever has got to the network has every directory, whatever the disk   *)
(* held, whichever calls failed, and however the processes interleaved:    *)
(* the server writes its logs under them without looking again.            *)
(* (ServerInit.cpp:60-62 after DirectoryInit, Filesystem.cpp:29-40)        *)
LayoutComplete == \A p \in Process : net[p] # "none" => Directory \subseteq disk

(* A content directory is forgotten only with the start that made it: the  *)
(* one that created it, or found it made by another process between its    *)
(* two looks, is still on its way to the message that asks for contents,   *)
(* or it died on the way.  A start never gets from there to the network.   *)
(* (ServerInit.cpp:98-125 and 44-51)                                       *)
OwedAccountedFor ==
    owed \subseteq lost \union UNION {made[p] : p \in {q \in Process : net[q] = "none"}}

(* "they require propagation before server startup can continue"           *)
(* (ServerInit.cpp:46): no server listens over a directory that was        *)
(* created and never announced.                                            *)
PropagationAsked == (\E p \in Process : net[p] = "listening") => owed = {}

(* Starting again helps: once nothing goes wrong any more, a server that   *)
(* is started over and over is listening over and over.  No state of the   *)
(* disk that the program itself leaves behind, by a shutdown for           *)
(* propagation or a death in the middle, keeps it from coming up.          *)
(* (ServerInit.cpp:44, Filesystem.cpp:25)                                  *)
ComesUp ==
    (\E p \in Process : []<>(pc[p] = "config"))
        => []<>(\E p \in Process : net[p] = "listening")
=============================================================================
