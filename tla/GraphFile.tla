------------------------------ MODULE GraphFile ------------------------------
(***************************************************************************)
(* The graph on disk (node/file.go, refreshGraph of node/cron.go): a save  *)
(* writes graph.json.tmp, keeps the last file as graph.json.old and moves  *)
(* the new one in its place; a start loads graph.json, or the old file     *)
(* when there is none.                                                     *)
(*                                                                         *)
(* File names refer to inodes, because a name may be moved while a save    *)
(* holds the file open.  A graph is numbered by its age.  Saves belong to  *)
(* cron jobs: the library starts a job though the last one still runs.     *)
(* The process may die between any two calls, and in the middle of a       *)
(* write; the file system does not lose what was written.                  *)
(*                                                                         *)
(* As in ParallelRebalance, an operator that stands before the one it      *)
(* resembles and is used by no action is a faulty variant of it.           *)
(***************************************************************************)
EXTENDS Integers, FiniteSets

CONSTANTS
    Job,         \* runs of refreshGraph that may overlap
    NoJob,
    Inode,
    NoFile,
    MaxVersion,  \* bound on what is learned
    MaxCrashes   \* bound on crashes

ASSUME JobsAssumption == NoJob \notin Job
ASSUME InodesAssumption == NoFile \notin Inode
ASSUME BoundsAssumption == MaxVersion \in Nat /\ MaxCrashes \in Nat

VARIABLES
    up,       \* the process runs
    crashes,
    version,  \* the graph in memory
    lock,     \* the job that holds Graph.Lock
    name,     \* graph.json, graph.json.old, graph.json.tmp
    content,  \* of each inode
    pc,       \* where each job is in SaveGraphToFile
    fd        \* the file each job has open

disk == <<name, content>>
vars == <<up, crashes, version, lock, name, content, pc, fd>>

---------------------------------------------------------------------------

Torn == -1    \* empty, or written in part
File == "graph.json"
Old == "graph.json.old"
Tmp == "graph.json.tmp"

Exists(f) == name[f] # NoFile

Init ==
    /\ up = FALSE
    /\ crashes = 0
    /\ version = 0
    /\ lock = NoJob
    /\ name = [f \in {File, Old, Tmp} |-> NoFile]
    /\ content = [n \in Inode |-> Torn]
    /\ pc = [j \in Job |-> "idle"]
    /\ fd = [j \in Job |-> NoFile]

---------------------------------------------------------------------------
(* LoadGraphFromFile *)

\* What a start opens: graph.json, else the old one.
Opened == IF Exists(File) THEN name[File] ELSE name[Old]

\* NewGraph when neither can be opened.
LoadedVersion == IF Opened = NoFile THEN 0 ELSE content[Opened]

\* A file that cannot be decoded ends the process: it stays down.
LoadGraphFromFile ==
    /\ ~up
    /\ LoadedVersion # Torn
    /\ up' = TRUE
    /\ version' = LoadedVersion
    /\ UNCHANGED <<crashes, lock, disk, pc, fd>>

---------------------------------------------------------------------------
(* The graph changes under its locks *)

Learn ==
    /\ up
    /\ lock = NoJob
    /\ version < MaxVersion
    /\ version' = version + 1
    /\ UNCHANGED <<up, crashes, lock, disk, pc, fd>>

---------------------------------------------------------------------------
(* SaveGraphToFile *)

Goto(j, place) == pc' = [pc EXCEPT ![j] = place]

Free == {n \in Inode : /\ \A f \in {File, Old, Tmp} : name[f] # n
                       /\ \A j \in Job : fd[j] # n}

\* os.Create truncates the file that has the name.
CreateTmp(j) ==
    /\ up /\ pc[j] = "idle"
    /\ \E n \in IF Exists(Tmp) THEN {name[Tmp]} ELSE Free :
        /\ name' = [name EXCEPT ![Tmp] = n]
        /\ content' = [content EXCEPT ![n] = Torn]
        /\ fd' = [fd EXCEPT ![j] = n]
    /\ Goto(j, "created")
    /\ UNCHANGED <<up, crashes, version, lock>>

\* The graph is locked, and its encoding is being written.
BeginEncode(j) ==
    /\ up /\ pc[j] = "created"
    /\ lock = NoJob
    /\ lock' = j
    /\ content' = [content EXCEPT ![fd[j]] = Torn]
    /\ Goto(j, "encode")
    /\ UNCHANGED <<up, crashes, version, name, fd>>

CloseAndUnlock(j) ==
    /\ lock' = NoJob
    /\ fd' = [fd EXCEPT ![j] = NoFile]

EndEncode(j) ==
    /\ up /\ pc[j] = "encode"
    /\ content' = [content EXCEPT ![fd[j]] = version]
    /\ CloseAndUnlock(j)
    /\ Goto(j, "keep")
    /\ UNCHANGED <<up, crashes, version, name>>

EncodeErrorIgnored(j) ==
    /\ up /\ pc[j] = "encode"
    /\ CloseAndUnlock(j)
    /\ Goto(j, "keep")
    /\ UNCHANGED <<up, crashes, version, disk>>

\* The write fails: the save returns the error.
EncodeError(j) ==
    /\ up /\ pc[j] = "encode"
    /\ CloseAndUnlock(j)
    /\ Goto(j, "idle")
    /\ UNCHANGED <<up, crashes, version, disk>>

KeepNothing(j) ==
    /\ up /\ pc[j] = "keep"
    /\ name' = [name EXCEPT ![File] = NoFile]
    /\ Goto(j, "publish")
    /\ UNCHANGED <<up, crashes, version, lock, content, fd>>

KeepOldFile(j) ==
    /\ up /\ pc[j] = "keep"
    /\ name' = IF Exists(File)
               THEN [name EXCEPT ![Old] = name[File], ![File] = NoFile]
               ELSE name
    /\ Goto(j, "publish")
    /\ UNCHANGED <<up, crashes, version, lock, content, fd>>

\* Another save may have moved the temporary file: Rename returns an error.
Publish(j) ==
    /\ up /\ pc[j] = "publish"
    /\ name' = IF Exists(Tmp)
               THEN [name EXCEPT ![File] = name[Tmp], ![Tmp] = NoFile]
               ELSE name
    /\ Goto(j, "idle")
    /\ UNCHANGED <<up, crashes, version, lock, content, fd>>

SaveGraphToFile(j) ==
    \/ CreateTmp(j) \/ BeginEncode(j) \/ EndEncode(j) \/ EncodeError(j)
    \/ KeepOldFile(j) \/ Publish(j)

---------------------------------------------------------------------------

\* The process dies; its files are closed.
Crash ==
    /\ up
    /\ crashes < MaxCrashes
    /\ crashes' = crashes + 1
    /\ up' = FALSE
    /\ lock' = NoJob
    /\ pc' = [j \in Job |-> "idle"]
    /\ fd' = [j \in Job |-> NoFile]
    /\ UNCHANGED <<version, disk>>

Next ==
    \/ LoadGraphFromFile
    \/ Learn
    \/ \E j \in Job : SaveGraphToFile(j)
    \/ Crash

Spec == Init /\ [][Next]_vars

---------------------------------------------------------------------------
(* Properties *)

\* Types, and the files a job may have open: none outside of its encoding.
TypeOK ==
    /\ up \in BOOLEAN
    /\ crashes \in 0..MaxCrashes
    /\ version \in 0..MaxVersion
    /\ lock \in Job \cup {NoJob}
    /\ name \in [{File, Old, Tmp} -> Inode \cup {NoFile}]
    /\ content \in [Inode -> {Torn} \cup 0..MaxVersion]
    /\ pc \in [Job -> {"idle", "created", "encode", "keep", "publish"}]
    /\ fd \in [Job -> Inode \cup {NoFile}]
    /\ \A j \in Job : fd[j] # NoFile <=> pc[j] \in {"created", "encode"}
    /\ \A j \in Job : lock = j <=> pc[j] = "encode"

\* Whenever the plugin is started it can load a graph: neither graph.json nor
\* the old file that stands in for it is ever half written, whatever the save
\* was doing when the process died (file.go:62-68).
AlwaysLoadable == LoadedVersion # Torn

\* The condition under which saves do not meet.
AtMostOneJob == \A j, k \in Job : j = k

\* A save is atomic and never goes back: what a start would load only ever
\* becomes a newer graph, and only while the plugin runs.
Implements == INSTANCE DurableGraph WITH
    running <- up, memory <- version, stored <- LoadedVersion
ImplementsDurableGraph == Implements!Spec

\* "Liquidity information is stored in graph.json" (README.md:13), with jobs
\* that overlap.
StoredWhenJobsOverlap == LoadedVersion # Torn
=============================================================================
